---- MODULE Spec2Model ----
(***************************************************************************)
(* GASB 75 OPEB roll-forward: the actuarial calculators                    *)
(* (excel_updater.calculate_roll_forward, gasb75_updater.                   *)
(* calculate_rollforward, run_valuation.run_rollforward and                 *)
(* run_full_valuation, engine.RollForwardEngine) and the workbook update    *)
(* runs (excel_updater.update_roll_forward_excel and the two                *)
(* update_gasb75_file functions).                                           *)
(*                                                                         *)
(* Numbers.  The Python code works on floats; the model works on exact     *)
(* fixed-point numbers.  A discount rate r is carried as the integer        *)
(* r * RateUnit (units of 1e-5, so that 0.0001 is DeadBand = 10 units and   *)
(* rates one unit either side of the dead-band edge exist).  An input       *)
(* amount of money is an integer number of dollars; a computed amount is    *)
(* an integer number of 1/Scale dollars, Scale = 2 * RateUnit, which makes  *)
(* (boy + sc/2) * rate and duration * boy * (new - old) exact.              *)
(* An Optional[float] is <<>> (None) or <<v>>.                              *)
(***************************************************************************)
EXTENDS Integers, Sequences, FiniteSets, TLC

VARIABLES
    ret,        \* the last calculator call: its arguments and what it returned
    variant,    \* which updater runs: "excel", "gasb75" or "runval"
    upd,        \* the arguments of the update run
    pc,         \* the step the update run is at
    sheets,     \* the sheet names of the input document
    wb0,        \* the input document as stored: formulas and literals
    wb,         \* the formula handle, load_workbook(path): cells by address
    wb_data,    \* the evaluated-value handle, load_workbook(path, data_only=True)
    log,        \* the cell reads, cell writes and sheet lookups made so far
    open,       \* the handles that are open
    out,        \* the document saved to the output path, None if none was
    prev        \* the input document of the run before this one, None if none

vars == <<ret, variant, upd, pc, sheets, wb0, wb, wb_data, log, open, out, prev>>
docvars == <<variant, upd, pc, sheets, wb0, wb, wb_data, log, open, out, prev>>

RateUnit == 100000
DeadBand == 10
Scale == 2 * RateUnit

None == <<>>
Some(v) == <<v>>
IsNone(o) == o = <<>>
Val(o) == o[1]

Abs(x) == IF x < 0 THEN -x ELSE x
Max2(a, b) == IF a >= b THEN a ELSE b

\* dollars -> units of 1/Scale dollars
Money(x) == x * Scale

\* amount * (pct / 100), kept as the two factors: the product is exact in
\* neither 1/Scale dollars nor 32-bit integers
Percent(amount, pct) == [of |-> amount, pct |-> pct]

(***************************************************************************)
(* excel_updater.calculate_roll_forward                                    *)
(***************************************************************************)
\* calculate_roll_forward with interest on the whole service cost
calculate_roll_forward_fullYear(inputs) ==
    LET interest == (2 * inputs.boy_tol_old_rate + 2 * inputs.service_cost)
                        * inputs.prior_discount_rate
        rate_change == inputs.new_discount_rate - inputs.prior_discount_rate
        boy_tol_new_rate == inputs.boy_tol_old_rate
                              * (RateUnit - inputs.duration * rate_change) * 2
        assumption_change == boy_tol_new_rate - Money(inputs.boy_tol_old_rate)
        experience == 0
        eoy_tol == Money(inputs.boy_tol_old_rate) + Money(inputs.service_cost)
                      + interest + assumption_change
    IN [boy_tol_old_rate |-> Money(inputs.boy_tol_old_rate),
        boy_tol_new_rate |-> boy_tol_new_rate,
        eoy_tol |-> eoy_tol,
        service_cost |-> Money(inputs.service_cost),
        interest |-> interest,
        assumption_change |-> assumption_change,
        experience |-> experience,
        sensitivity_disc_plus |-> Percent(eoy_tol, 100 - inputs.duration),
        sensitivity_disc_minus |-> Percent(eoy_tol, 100 + inputs.duration),
        sensitivity_trend_plus |-> Percent(eoy_tol, 100 + inputs.trend_duration),
        sensitivity_trend_minus |-> Percent(eoy_tol, 100 - inputs.trend_duration)]

\* amounts in 1/Scale dollars; the sensitivities in 1/(100 * Scale) dollars
calculate_roll_forward(inputs) ==
    LET interest == (2 * inputs.boy_tol_old_rate + inputs.service_cost)
                        * inputs.prior_discount_rate
        rate_change == inputs.new_discount_rate - inputs.prior_discount_rate
        boy_tol_new_rate == inputs.boy_tol_old_rate
                              * (RateUnit - inputs.duration * rate_change) * 2
        assumption_change == boy_tol_new_rate - Money(inputs.boy_tol_old_rate)
        experience == 0
        eoy_tol == Money(inputs.boy_tol_old_rate) + Money(inputs.service_cost)
                      + interest + assumption_change
    IN [boy_tol_old_rate |-> Money(inputs.boy_tol_old_rate),
        boy_tol_new_rate |-> boy_tol_new_rate,
        eoy_tol |-> eoy_tol,
        service_cost |-> Money(inputs.service_cost),
        interest |-> interest,
        assumption_change |-> assumption_change,
        experience |-> experience,
        sensitivity_disc_plus |-> Percent(eoy_tol, 100 - inputs.duration),
        sensitivity_disc_minus |-> Percent(eoy_tol, 100 + inputs.duration),
        sensitivity_trend_plus |-> Percent(eoy_tol, 100 + inputs.trend_duration),
        sensitivity_trend_minus |-> Percent(eoy_tol, 100 - inputs.trend_duration)]

(***************************************************************************)
(* gasb75_updater.calculate_rollforward                                    *)
(***************************************************************************)
\* calculate_rollforward with the benefit payments left out of the ending balance
calculate_rollforward_noPayments(prior_tol_eoy, prior_service_cost, prior_discount_rate, new_discount_rate, benefit_payments, duration) ==
    LET tol_boy == prior_tol_eoy
        service_cost == prior_service_cost
        interest == (2 * tol_boy + service_cost) * prior_discount_rate
        rate_change == new_discount_rate - prior_discount_rate
        assumption_change == IF Abs(rate_change) > DeadBand
                             THEN -tol_boy * rate_change * duration * 2
                             ELSE 0
        tol_boy_new_rate == Money(tol_boy) + assumption_change
        experience == 0
        tol_eoy == Money(tol_boy) + Money(service_cost) + interest
                     + assumption_change + experience
    IN [tol_boy_old_rate |-> Money(tol_boy),
        tol_boy_new_rate |-> tol_boy_new_rate,
        tol_eoy_baseline |-> tol_eoy,
        tol_eoy_disc_plus_1 |-> Percent(tol_eoy, 92),
        tol_eoy_disc_minus_1 |-> Percent(tol_eoy, 108),
        tol_eoy_trend_baseline |-> tol_eoy,
        tol_eoy_trend_plus_1 |-> Percent(tol_eoy, 104),
        tol_eoy_trend_minus_1 |-> Percent(tol_eoy, 96),
        service_cost |-> Money(service_cost),
        interest |-> interest,
        assumption_change |-> assumption_change,
        experience |-> experience]

calculate_rollforward(prior_tol_eoy, prior_service_cost, prior_discount_rate, new_discount_rate, benefit_payments, duration) ==
    LET tol_boy == prior_tol_eoy
        service_cost == prior_service_cost
        interest == (2 * tol_boy + service_cost) * prior_discount_rate
        rate_change == new_discount_rate - prior_discount_rate
        assumption_change == IF Abs(rate_change) > DeadBand
                             THEN -tol_boy * rate_change * duration * 2
                             ELSE 0
        tol_boy_new_rate == Money(tol_boy) + assumption_change
        experience == 0
        tol_eoy == Money(tol_boy) + Money(service_cost) + interest
                     + assumption_change + experience - Money(benefit_payments)
    IN [tol_boy_old_rate |-> Money(tol_boy),
        tol_boy_new_rate |-> tol_boy_new_rate,
        tol_eoy_baseline |-> tol_eoy,
        tol_eoy_disc_plus_1 |-> Percent(tol_eoy, 92),
        tol_eoy_disc_minus_1 |-> Percent(tol_eoy, 108),
        tol_eoy_trend_baseline |-> tol_eoy,
        tol_eoy_trend_plus_1 |-> Percent(tol_eoy, 104),
        tol_eoy_trend_minus_1 |-> Percent(tol_eoy, 96),
        service_cost |-> Money(service_cost),
        interest |-> interest,
        assumption_change |-> assumption_change,
        experience |-> experience]

(***************************************************************************)
(* run_valuation.run_rollforward: the duration is the local constant 10.0  *)
(***************************************************************************)
RunValDuration == 10

run_rollforward(prior_data, discount_rate, prior_discount_rate, benefit_payments) ==
    LET tol_boy == prior_data.tol_eoy
        service_cost == prior_data.service_cost
        interest_cost == (2 * tol_boy + service_cost) * prior_discount_rate
        rate_change == discount_rate - prior_discount_rate
        duration == RunValDuration
        assumption_change == IF Abs(rate_change) > DeadBand
                             THEN -tol_boy * rate_change * duration * 2
                             ELSE 0
        tol_boy_new_rate == Money(tol_boy) + assumption_change
        experience_gl == 0
        tol_eoy == Money(tol_boy) + Money(service_cost) + interest_cost
                     + assumption_change + experience_gl - Money(benefit_payments)
    IN [tol_boy_old_rate |-> Money(tol_boy),
        tol_boy_new_rate |-> tol_boy_new_rate,
        tol_eoy_baseline |-> tol_eoy,
        tol_eoy_disc_plus_1 |-> Percent(tol_eoy, 92),
        tol_eoy_disc_minus_1 |-> Percent(tol_eoy, 108),
        tol_eoy_trend_plus_1 |-> Percent(tol_eoy, 104),
        tol_eoy_trend_minus_1 |-> Percent(tol_eoy, 96),
        service_cost |-> Money(service_cost),
        interest_cost |-> interest_cost,
        assumption_change |-> assumption_change,
        experience_gl |-> experience_gl,
        benefit_payments |-> Money(benefit_payments)]

(***************************************************************************)
(* run_valuation.run_full_valuation.  The census files contribute their    *)
(* row counts; the external vectorized engine (opeb_valuation, not part of *)
(* this repository) either returns a total liability and a service cost,   *)
(* engine = <<[TOL |-> t, service_cost |-> s]>>, or is unavailable,        *)
(* engine = None, and the except branch computes the simplified figures.   *)
(* census_factor is the fraction num / den; the inputs are chosen so that  *)
(* prior service cost * census_factor is a whole number of dollars.        *)
(***************************************************************************)
run_full_valuation(prior_data, active_count, retiree_count, engine, discount_rate, prior_discount_rate, benefit_payments) ==
    LET tol_boy == prior_data.tol_eoy
        num == active_count + retiree_count
        den == Max2(prior_data.active_count + prior_data.retiree_count, 1)
        \* except branch (lines 298-311)
        x_service_cost == (prior_data.service_cost * num) \div den
        x_interest_cost == (2 * tol_boy + x_service_cost) * prior_discount_rate
        x_rate_change == discount_rate - prior_discount_rate
        x_assumption_change == IF Abs(x_rate_change) > DeadBand
                               THEN -tol_boy * x_rate_change * 10 * 2
                               ELSE 0
        x_experience_gl == IF Abs(num - den) * 100 > den
                           THEN (tol_boy * (num - den) * 3 * (Scale \div 10)) \div den
                           ELSE 0
        x_tol_eoy == Money(tol_boy) + Money(x_service_cost) + x_interest_cost
                       + x_assumption_change + x_experience_gl
                       - Money(benefit_payments)
        \* try branch (lines 287-294) or except branch
        tol_eoy == IF IsNone(engine) THEN x_tol_eoy ELSE Money(Val(engine).TOL)
        service_cost == IF IsNone(engine) THEN x_service_cost
                        ELSE Val(engine).service_cost
        \* lines 313-320
        interest_cost == (2 * tol_boy + service_cost) * prior_discount_rate
        rate_change == discount_rate - prior_discount_rate
        assumption_change == IF Abs(rate_change) > DeadBand
                             THEN -tol_boy * rate_change * 10 * 2
                             ELSE 0
        tol_boy_new_rate == Money(tol_boy) + assumption_change
        experience_gl == tol_eoy - Money(tol_boy) - Money(service_cost)
                           - interest_cost - assumption_change
                           + Money(benefit_payments)
    IN [tol_boy_old_rate |-> Money(tol_boy),
        tol_boy_new_rate |-> tol_boy_new_rate,
        tol_eoy_baseline |-> tol_eoy,
        service_cost |-> Money(service_cost),
        interest_cost |-> interest_cost,
        assumption_change |-> assumption_change,
        experience_gl |-> experience_gl,
        benefit_payments |-> Money(benefit_payments)]

(***************************************************************************)
(* engine.py.  A duration is a fraction [num, den]: a supplied duration d  *)
(* is d/1 and the estimate is                                              *)
(*   active_pct * (arsl + 10) + (1 - active_pct) * 10                      *)
(* with active_pct = tol_actives / total_opeb_liability.                   *)
(***************************************************************************)
duration_estimate(prior) ==
    IF prior.avg_remaining_service_life > 0 /\ prior.total_opeb_liability > 0
    THEN [num |-> prior.tol_actives * (prior.avg_remaining_service_life + 10)
                    + (prior.total_opeb_liability - prior.tol_actives) * 10,
          den |-> prior.total_opeb_liability]
    ELSE [num |-> 10, den |-> 1]

\* RollForwardEngine.__init__: "duration or prior.duration_estimate"
RollForwardEngine(prior, benefit_payments, new_discount_rate, actual_eoy_tol, duration) ==
    [prior |-> prior,
     benefit_payments |-> benefit_payments,
     new_discount_rate |-> new_discount_rate,
     actual_eoy_tol |-> actual_eoy_tol,
     duration |-> IF IsNone(duration) \/ Val(duration) = 0
                  THEN duration_estimate(prior)
                  ELSE [num |-> Val(duration), den |-> 1]]

calculate_interest_cost(self) ==
    (2 * self.prior.total_opeb_liability + self.prior.service_cost
        - self.benefit_payments) * self.prior.discount_rate_boy

calculate_expected_eoy_tol(self) ==
    Money(self.prior.total_opeb_liability) + Money(self.prior.service_cost)
        + calculate_interest_cost(self) - Money(self.benefit_payments)

calculate_discount_rate_change_effect(self) ==
    IF IsNone(self.new_discount_rate) THEN 0
    ELSE LET delta_rate == Val(self.new_discount_rate) - self.prior.discount_rate_eoy
         IN IF Abs(delta_rate) < DeadBand THEN 0
            ELSE -(((self.duration.num * self.prior.total_opeb_liability)
                        \div self.duration.den) * delta_rate * 2)

\* run with the experience taken against the expected balance when no actual is given
run_alwaysResidual(self) ==
    LET interest_cost == calculate_interest_cost(self)
        expected_eoy == calculate_expected_eoy_tol(self)
        dr_effect == calculate_discount_rate_change_effect(self)
        experience_gl == IF ~IsNone(self.actual_eoy_tol)
                         THEN Money(Val(self.actual_eoy_tol)) - (expected_eoy + dr_effect)
                         ELSE expected_eoy - (expected_eoy + dr_effect)
    IN [boy_tol |-> Money(self.prior.total_opeb_liability),
        service_cost |-> Money(self.prior.service_cost),
        interest_cost |-> interest_cost,
        benefit_payments |-> Money(self.benefit_payments),
        expected_eoy_tol |-> expected_eoy,
        actual_eoy_tol |-> self.actual_eoy_tol,
        experience_gain_loss |-> experience_gl,
        assumption_change_effect |-> dr_effect,
        discount_rate_change_effect |-> dr_effect]

\* run testing the actual ending liability for truth instead of for None
run_truthyActual(self) ==
    LET interest_cost == calculate_interest_cost(self)
        expected_eoy == calculate_expected_eoy_tol(self)
        dr_effect == calculate_discount_rate_change_effect(self)
        experience_gl == IF ~IsNone(self.actual_eoy_tol) /\ Val(self.actual_eoy_tol) # 0
                         THEN Money(Val(self.actual_eoy_tol)) - (expected_eoy + dr_effect)
                         ELSE 0
    IN [boy_tol |-> Money(self.prior.total_opeb_liability),
        service_cost |-> Money(self.prior.service_cost),
        interest_cost |-> interest_cost,
        benefit_payments |-> Money(self.benefit_payments),
        expected_eoy_tol |-> expected_eoy,
        actual_eoy_tol |-> self.actual_eoy_tol,
        experience_gain_loss |-> experience_gl,
        assumption_change_effect |-> dr_effect,
        discount_rate_change_effect |-> dr_effect]

run(self) ==
    LET interest_cost == calculate_interest_cost(self)
        expected_eoy == calculate_expected_eoy_tol(self)
        dr_effect == calculate_discount_rate_change_effect(self)
        experience_gl == IF ~IsNone(self.actual_eoy_tol)
                         THEN Money(Val(self.actual_eoy_tol)) - (expected_eoy + dr_effect)
                         ELSE 0
    IN [boy_tol |-> Money(self.prior.total_opeb_liability),
        service_cost |-> Money(self.prior.service_cost),
        interest_cost |-> interest_cost,
        benefit_payments |-> Money(self.benefit_payments),
        expected_eoy_tol |-> expected_eoy,
        actual_eoy_tol |-> self.actual_eoy_tol,
        experience_gain_loss |-> experience_gl,
        assumption_change_effect |-> dr_effect,
        discount_rate_change_effect |-> dr_effect]

\* RollForwardResults.get_reconciliation_table: "actual_eoy_tol or expected_eoy_tol"
get_reconciliation_table(r) ==
    [Beginning_TOL |-> r.boy_tol,
     Service_Cost |-> r.service_cost,
     Interest_Cost |-> r.interest_cost,
     Benefit_Payments |-> -r.benefit_payments,
     Experience_Gain_Loss |-> r.experience_gain_loss,
     Assumption_Changes |-> r.assumption_change_effect,
     Ending_TOL |-> IF IsNone(r.actual_eoy_tol) \/ Val(r.actual_eoy_tol) = 0
                    THEN r.expected_eoy_tol
                    ELSE Money(Val(r.actual_eoy_tol))]

(***************************************************************************)
(* Calculator calls.  ret records the last call in one shape for all five  *)
(* calculators: a = the arguments, r = the returned figures.               *)
(*   a.prior_rate  the rate the new rate is compared with                  *)
(*   a.rate_boy    the rate interest accrues at (PriorValuation keeps the  *)
(*                 two apart; the other calculators take one prior rate)   *)
(*   a.has_bp      the calculator takes a benefit_payments argument        *)
(*   r.actual      the independently supplied ending liability, if any     *)
(*   r.raised      the exception the call ended with, "" for a return      *)
(***************************************************************************)
MaxCensus == 3

Balances == {-100, 0, 400}
ServiceCosts == {0, 216}
\* with the liability and the service cost of the end-to-end scenario,
\* 24010 and 215, in units of their greatest common divisor, 5 dollars
\* (24010 dollars in 1/Scale dollars exceeds a 32-bit integer)
ScenarioUnit ==
    CHOOSE u \in 1..215 :
        /\ 24010 % u = 0 /\ 215 % u = 0
        /\ \A v \in (u + 1)..215 : ~(24010 % v = 0 /\ 215 % v = 0)
ScenarioBalances == Balances \cup {24010 \div ScenarioUnit}
ScenarioServiceCosts == ServiceCosts \cup {215 \div ScenarioUnit}
TrendDurations == {0, 5}

\* the scenario's liability with rates up to 1 only: the products stay
\* within 32 bits
InRange(boy, nr) == boy \in Balances \/ nr <= RateUnit
PriorRates == {-10, 0, 3810}
NewRates == {0, 9, 10, 3800, 3801, 3810, 3819, 3820, 5020, 100010}
Payments == {0, 50}
Durations == {0, 5, 10}
ActualEoys == {None, Some(0), Some(450)}
ActiveLiabilities == {0, 100}
ServiceLives == {0, 12}
PriorCounts == {0, 2}
EngineOutputs == {None, Some([TOL |-> 0, service_cost |-> 0]),
                  Some([TOL |-> 450, service_cost |-> 200])}

NoArgs ==
    [boy |-> 0, sc |-> 0, prior_rate |-> 0, rate_boy |-> 0, new_rate |-> None,
     bp |-> 0, has_bp |-> FALSE, duration |-> None, trend_duration |-> None,
     actual |-> None]

NoResult ==
    [boy |-> 0, boy_new |-> 0, sc |-> 0, interest |-> 0, ac |-> 0, exp |-> 0,
     bp |-> 0, eoy |-> 0, actual |-> None, raised |-> "",
     disc_plus |-> Percent(0, 100), disc_minus |-> Percent(0, 100),
     trend_plus |-> Percent(0, 100), trend_minus |-> Percent(0, 100)]

IdleRet == [fn |-> "none", a |-> NoArgs, r |-> NoResult]

\* no update run in the calculator specification
NoDoc ==
    /\ variant = "none"
    /\ upd = <<>>
    /\ pc = "none"
    /\ sheets = {}
    /\ wb0 = <<>>
    /\ wb = <<>>
    /\ wb_data = <<>>
    /\ log = <<>>
    /\ open = {}
    /\ out = None
    /\ prev = None

InitCalc == ret = IdleRet /\ NoDoc

Call_calculate_roll_forward ==
    /\ ret.fn = "none"
    /\ \E boy \in ScenarioBalances, sc \in ScenarioServiceCosts, pr \in PriorRates,
       nr \in NewRates, d \in Durations, td \in TrendDurations :
        LET res == calculate_roll_forward(
                       [boy_tol_old_rate |-> boy, service_cost |-> sc,
                        prior_discount_rate |-> pr, new_discount_rate |-> nr,
                        duration |-> d, trend_duration |-> td])
        IN /\ InRange(boy, nr)
           /\ UNCHANGED docvars
           /\ ret' = [fn |-> "calculate_roll_forward",
                   a |-> [NoArgs EXCEPT !.boy = boy, !.sc = sc, !.prior_rate = pr,
                              !.rate_boy = pr, !.new_rate = Some(nr),
                              !.duration = Some(d), !.trend_duration = Some(td)],
                   r |-> [NoResult EXCEPT !.boy = res.boy_tol_old_rate,
                              !.boy_new = res.boy_tol_new_rate,
                              !.sc = res.service_cost, !.interest = res.interest,
                              !.ac = res.assumption_change,
                              !.exp = res.experience, !.eoy = res.eoy_tol,
                              !.disc_plus = res.sensitivity_disc_plus,
                              !.disc_minus = res.sensitivity_disc_minus,
                              !.trend_plus = res.sensitivity_trend_plus,
                              !.trend_minus = res.sensitivity_trend_minus]]

Call_calculate_rollforward ==
    /\ ret.fn = "none"
    /\ \E boy \in ScenarioBalances, sc \in ScenarioServiceCosts, pr \in PriorRates,
       nr \in NewRates, bp \in Payments, d \in Durations :
        LET res == calculate_rollforward(boy, sc, pr, nr, bp, d)
        IN /\ InRange(boy, nr)
           /\ UNCHANGED docvars
           /\ ret' = [fn |-> "calculate_rollforward",
                   a |-> [NoArgs EXCEPT !.boy = boy, !.sc = sc, !.prior_rate = pr,
                              !.rate_boy = pr, !.new_rate = Some(nr), !.bp = bp,
                              !.has_bp = TRUE, !.duration = Some(d)],
                   r |-> [NoResult EXCEPT !.boy = res.tol_boy_old_rate,
                              !.boy_new = res.tol_boy_new_rate,
                              !.sc = res.service_cost, !.interest = res.interest,
                              !.ac = res.assumption_change,
                              !.exp = res.experience, !.bp = Money(bp),
                              !.eoy = res.tol_eoy_baseline,
                              !.disc_plus = res.tol_eoy_disc_plus_1,
                              !.disc_minus = res.tol_eoy_disc_minus_1,
                              !.trend_plus = res.tol_eoy_trend_plus_1,
                              !.trend_minus = res.tol_eoy_trend_minus_1]]

Call_run_rollforward ==
    /\ ret.fn = "none"
    /\ \E boy \in ScenarioBalances, sc \in ScenarioServiceCosts, pr \in PriorRates,
       nr \in NewRates, bp \in Payments :
        LET res == run_rollforward([tol_eoy |-> boy, service_cost |-> sc], nr, pr, bp)
        IN /\ InRange(boy, nr)
           /\ UNCHANGED docvars
           /\ ret' = [fn |-> "run_rollforward",
                   a |-> [NoArgs EXCEPT !.boy = boy, !.sc = sc, !.prior_rate = pr,
                              !.rate_boy = pr, !.new_rate = Some(nr), !.bp = bp,
                              !.has_bp = TRUE],
                   r |-> [NoResult EXCEPT !.boy = res.tol_boy_old_rate,
                              !.boy_new = res.tol_boy_new_rate,
                              !.sc = res.service_cost, !.interest = res.interest_cost,
                              !.ac = res.assumption_change,
                              !.exp = res.experience_gl, !.bp = res.benefit_payments,
                              !.eoy = res.tol_eoy_baseline,
                              !.disc_plus = res.tol_eoy_disc_plus_1,
                              !.disc_minus = res.tol_eoy_disc_minus_1,
                              !.trend_plus = res.tol_eoy_trend_plus_1,
                              !.trend_minus = res.tol_eoy_trend_minus_1]]

Call_run_full_valuation ==
    /\ ret.fn = "none"
    /\ \E boy \in Balances, sc \in ServiceCosts, pr \in PriorRates,
       nr \in NewRates, bp \in Payments, pcnt \in PriorCounts,
       ac \in 0..MaxCensus, rc \in 0..1, eng \in EngineOutputs :
        LET res == run_full_valuation(
                       [tol_eoy |-> boy, service_cost |-> sc,
                        active_count |-> pcnt, retiree_count |-> 0],
                       ac, rc, eng, nr, pr, bp)
        IN /\ UNCHANGED docvars
           /\ ret' = [fn |-> "run_full_valuation",
                   a |-> [NoArgs EXCEPT !.boy = boy, !.sc = sc, !.prior_rate = pr,
                              !.rate_boy = pr, !.new_rate = Some(nr), !.bp = bp,
                              !.has_bp = TRUE],
                   r |-> [NoResult EXCEPT !.boy = res.tol_boy_old_rate,
                              !.boy_new = res.tol_boy_new_rate,
                              !.sc = res.service_cost, !.interest = res.interest_cost,
                              !.ac = res.assumption_change,
                              !.exp = res.experience_gl, !.bp = res.benefit_payments,
                              !.eoy = res.tol_eoy_baseline,
                              !.actual = Some(res.tol_eoy_baseline)]]

Call_RollForwardEngine_run ==
    /\ ret.fn = "none"
    /\ \E boy \in Balances, sc \in ServiceCosts, rb \in PriorRates, re \in PriorRates,
       nr \in {None} \cup {Some(x) : x \in NewRates}, bp \in Payments,
       d \in {None} \cup {Some(x) : x \in Durations}, act \in ActualEoys,
       ta \in ActiveLiabilities, arsl \in ServiceLives :
        LET prior == [total_opeb_liability |-> boy, tol_actives |-> ta,
                      service_cost |-> sc, discount_rate_boy |-> rb,
                      discount_rate_eoy |-> re,
                      avg_remaining_service_life |-> arsl]
            res == run(RollForwardEngine(prior, bp, nr, act, d))
            tbl == get_reconciliation_table(res)
        IN /\ UNCHANGED docvars
           /\ ret' = [fn |-> "RollForwardEngine.run",
                   a |-> [NoArgs EXCEPT !.boy = boy, !.sc = sc, !.prior_rate = re,
                              !.rate_boy = rb, !.new_rate = nr, !.bp = bp,
                              !.has_bp = TRUE, !.duration = d, !.actual = act],
                   r |-> [NoResult EXCEPT !.boy = tbl.Beginning_TOL,
                              !.boy_new = tbl.Beginning_TOL + tbl.Assumption_Changes,
                              !.sc = tbl.Service_Cost, !.interest = tbl.Interest_Cost,
                              !.ac = tbl.Assumption_Changes,
                              !.exp = tbl.Experience_Gain_Loss,
                              !.bp = -tbl.Benefit_Payments,
                              !.eoy = tbl.Ending_TOL,
                              !.actual = IF IsNone(act) THEN None
                                         ELSE Some(Money(Val(act)))]]

\* the caller takes the result; the calculators keep no state between calls
Return ==
    /\ ret.fn # "none"
    /\ ret' = IdleRet
    /\ UNCHANGED docvars

NextCalc ==
    \/ Return
    \/ Call_calculate_roll_forward
    \/ Call_calculate_rollforward
    \/ Call_run_rollforward
    \/ Call_run_full_valuation
    \/ Call_RollForwardEngine_run

SpecCalc == InitCalc /\ [][NextCalc]_vars

(***************************************************************************)
(* Properties of the calculators                                           *)
(***************************************************************************)
Called == ret.fn # "none"
RateChange == Val(ret.a.new_rate) - ret.a.prior_rate
InvalidAssumptions ==
    \/ ret.a.boy < 0
    \/ ret.a.prior_rate < 0 \/ ret.a.prior_rate > RateUnit
    \/ ret.a.rate_boy < 0 \/ ret.a.rate_boy > RateUnit
    \/ /\ ~IsNone(ret.a.new_rate)
       /\ (Val(ret.a.new_rate) < 0 \/ Val(ret.a.new_rate) > RateUnit)

Reconciles(r) == r.eoy = r.boy + r.sc + r.interest + r.ac + r.exp - r.bp

\* C1: the figures returned by calculate_roll_forward, calculate_rollforward,
\* run_rollforward and run_full_valuation satisfy
\* EOY = BOY_old_rate + ServiceCost + Interest + AssumptionChange + Experience
\*       - BenefitPayments (BenefitPayments = 0 for calculate_roll_forward,
\* which has no such input).
C1_ReconciliationIdentity ==
    ret.fn \in {"calculate_roll_forward", "calculate_rollforward",
                "run_rollforward", "run_full_valuation"}
        => Reconciles(ret.r)

C1_Witness ==
    /\ ret.fn = "calculate_rollforward"
    /\ ~InvalidAssumptions
    /\ ret.r.bp > 0
    /\ ret.r.ac # 0
    /\ ret.r.interest # 0

\* C2: the reconciliation table of RollForwardEngine.run has
\* Ending TOL = Beginning TOL + Service Cost + Interest Cost
\*              + Assumption Changes + Experience (Gain)/Loss - benefit payments.
C2_EngineTableReconciles ==
    (ret.fn = "RollForwardEngine.run" /\ ~InvalidAssumptions) => Reconciles(ret.r)

\* C3: in every calculator, |newRate - oldRate| < 1e-4 makes the
\* assumption-change effect exactly 0 and BOY at the new rate equal to BOY at
\* the old rate.
C3_DeadBandIsZero ==
    (Called /\ ~InvalidAssumptions /\ ~IsNone(ret.a.new_rate)
        /\ Abs(RateChange) < DeadBand)
        => (ret.r.ac = 0 /\ ret.r.boy_new = ret.r.boy)

\* the duration the caller supplied; run_rollforward and run_full_valuation
\* take none and use 10
SuppliedDuration ==
    IF IsNone(ret.a.duration) THEN RunValDuration ELSE Val(ret.a.duration)

\* C4: whenever |newRate - oldRate| >= 1e-4 (the boundary included) the
\* assumption-change effect equals -duration * BOY * (newRate - oldRate) with
\* the duration the caller supplied.
C4_EffectOutsideDeadBand ==
    (/\ Called
     /\ ~InvalidAssumptions
     /\ ~IsNone(ret.a.new_rate)
     /\ ret.fn = "RollForwardEngine.run" => ~IsNone(ret.a.duration)
     /\ Abs(RateChange) >= DeadBand)
        => ret.r.ac = -(SuppliedDuration * ret.a.boy * RateChange * 2)

\* C5: interest cost equals (BOY + serviceCost/2 - benefitPayments/2) * prior
\* rate for all inputs, non-zero benefit payments included.
C5_InterestFormula ==
    (/\ ret.fn \in {"calculate_roll_forward", "calculate_rollforward",
                    "run_rollforward", "RollForwardEngine.run"}
     /\ ~InvalidAssumptions)
        => ret.r.interest = (2 * ret.a.boy + ret.a.sc - ret.a.bp) * ret.a.rate_boy

\* C6: when no actual ending liability is supplied the experience gain/loss is
\* exactly 0 (calculate_roll_forward, calculate_rollforward, run_rollforward,
\* RollForwardEngine.run).
C6_PureRollForwardExperienceZero ==
    (Called /\ IsNone(ret.r.actual)) => ret.r.exp = 0

C6_Witness ==
    /\ ret.fn = "RollForwardEngine.run"
    /\ ~InvalidAssumptions
    /\ IsNone(ret.a.actual)
    /\ ret.r.ac # 0
    /\ ret.r.bp > 0

\* C7: when an actual ending liability is supplied (0 included),
\* RollForwardEngine.run and run_full_valuation return
\* experience = actualEoy - BOY - serviceCost - interest - assumptionChange
\*              + benefitPayments.
C7_ResidualExperience ==
    (Called /\ ~IsNone(ret.r.actual))
        => ret.r.exp = Val(ret.r.actual) - ret.r.boy - ret.r.sc - ret.r.interest
                          - ret.r.ac + ret.r.bp

C7_Witness ==
    /\ ret.fn = "RollForwardEngine.run"
    /\ ~InvalidAssumptions
    /\ ret.a.actual = Some(0)
    /\ ret.r.bp > 0
    /\ ret.r.ac # 0
    /\ ret.r.exp # 0

\* C8: the calculation fails with an invalid-assumption error, and returns no
\* result, whenever the prior balance is negative or a discount rate is
\* outside [0, 1].
C8_InvalidAssumptionsRejected ==
    (Called /\ InvalidAssumptions) => ret.r.raised = "InvalidAssumptionError"

(***************************************************************************)
(* The workbook.  A cell value is None, a number, a date (its year), a     *)
(* text or a formula; texts and formulas are sequences of string tokens.   *)
(* Money cells hold 1/Scale dollars.  A handle maps the addresses          *)
(* <<sheet, column letter, row>> that hold something to their cell; any    *)
(* other address reads as None.                                            *)
(***************************************************************************)
NoneCell == [k |-> "none", n |-> 0, s |-> <<>>]
Num(n) == [k |-> "num", n |-> n, s |-> <<>>]
Date(y) == [k |-> "date", n |-> y, s |-> <<>>]
Text(t) == [k |-> "text", n |-> 0, s |-> t]
Formula(f) == [k |-> "formula", n |-> 0, s |-> f]
ErrorCell(e) == [k |-> "error", n |-> 0, s |-> <<e>>]

Get(cells, a) == IF a \in DOMAIN cells THEN cells[a] ELSE NoneCell
Put(cells, a, c) == (a :> c) @@ cells

\* Python round() of x / unit: to the nearest integer, halves to the even one
RoundAt(x, unit) ==
    LET q == x \div unit
        r == x % unit
    IN IF 2 * r < unit THEN q
       ELSE IF 2 * r > unit THEN q + 1
       ELSE IF q % 2 = 0 THEN q ELSE q + 1

\* round() of an amount in 1/Scale dollars, in whole dollars
Round(x) == RoundAt(x, Scale)

\* a text with a formatted number in it
TextN(n, t) == [k |-> "text", n |-> n, s |-> t]

(***************************************************************************)
(* The statements of an update run, in program order.                      *)
(*   sheet  h[name]            KeyError when the document has no such sheet *)
(*   read   x = h[a].value                                                  *)
(*   write  wb[a] = e                                                       *)
(*   fmt    a style change of wb[a] (copy_cell_format, fill)                *)
(* An expression is a literal cell, a local variable,                       *)
(* "round(x) if x else 0" of a local variable, or adjust_formula_row        *)
(* applied to a local variable for a list of (old_row, new_row); the        *)
(* assignment with an adjusted formula is guarded, and a guard that fails   *)
(* makes the expression "skip": nothing is written.                         *)
(***************************************************************************)
Letters == <<"A", "B", "C", "D", "E", "F", "G", "H", "I", "J", "K", "L", "M",
             "N", "O", "P", "Q", "R", "S", "T", "U", "V", "W", "X", "Y", "Z">>

\* openpyxl.utils.get_column_letter for the columns 1..52
get_column_letter(col_idx) ==
    IF col_idx <= 26 THEN Letters[col_idx] ELSE "A" \o Letters[col_idx - 26]

NoVar == <<"", 0>>
LitE(c) == [k |-> "lit", c |-> c, x |-> NoVar, r |-> <<>>]
VarE(x) == [k |-> "var", c |-> NoneCell, x |-> x, r |-> <<>>]
Round0E(x) == [k |-> "round0", c |-> NoneCell, x |-> x, r |-> <<>>]
\* if formula and isinstance(formula, str) and formula.startswith('='):
AdjustFormulaE(x, rows) == [k |-> "adjust_formula", c |-> NoneCell, x |-> x, r |-> rows]
\* if c26_formula and isinstance(c26_formula, str):
AdjustStrE(x, rows) == [k |-> "adjust_str", c |-> NoneCell, x |-> x, r |-> rows]
SkipCell == [k |-> "skip", n |-> 0, s |-> <<>>]

\* The text of a formula that is rewritten is a sequence of characters.
Upper == {Letters[i] : i \in 1..Len(Letters)}
DigitChars == <<"0", "1", "2", "3", "4", "5", "6", "7", "8", "9">>
DigitSet == {DigitChars[i] : i \in 1..Len(DigitChars)}

\* str(n) of a row number
RECURSIVE Digits(_)
Digits(n) == IF n < 10 THEN <<DigitChars[n + 1]>> ELSE Digits(n \div 10) \o <<DigitChars[(n % 10) + 1]>>

\* ''.join(pieces[lo..hi])
RECURSIVE Join(_, _, _)
Join(pieces, lo, hi) ==
    IF lo > hi THEN <<>>
    ELSE IF lo = hi THEN pieces[lo]
    ELSE Join(pieces, lo, (lo + hi) \div 2) \o Join(pieces, (lo + hi) \div 2 + 1, hi)

\* the pattern without its (?![0-9])
RowMatch_noLookahead(s, old, p) ==
    /\ p > 1
    /\ p + Len(old) - 1 <= Len(s)
    /\ SubSeq(s, p, p + Len(old) - 1) = old
    /\ s[p - 1] \in Upper

\* a pattern that lets a "$" stand between the column and the row
RowMatch_absoluteRow(s, old, p) ==
    /\ p > 1
    /\ p + Len(old) - 1 <= Len(s)
    /\ SubSeq(s, p, p + Len(old) - 1) = old
    /\ (s[p - 1] \in Upper \/ (p > 2 /\ s[p - 1] = "$" /\ s[p - 2] \in Upper))
    /\ (p + Len(old) > Len(s) \/ s[p + Len(old)] \notin DigitSet)

\* (\$?[A-Z]+) old (?![0-9]) matches with its digits at p: a capital letter
\* right before them and no digit right after them
RowMatch(s, old, p) ==
    /\ p > 1
    /\ p + Len(old) - 1 <= Len(s)
    /\ SubSeq(s, p, p + Len(old) - 1) = old
    /\ s[p - 1] \in Upper
    /\ (p + Len(old) > Len(s) \/ s[p + Len(old)] \notin DigitSet)

\* re.sub(pattern, replacement, formula), lines 71-73: the digits of every
\* match are replaced, the group before them is kept
re_sub(s, old_row, new_row) ==
    LET old == Digits(old_row)
        new == Digits(new_row)
        starts == {p \in 1..Len(s) : RowMatch(s, old, p)}
        piece(p) == IF p \in starts THEN new
                    ELSE IF \E q \in starts : q < p /\ p < q + Len(old) THEN <<>>
                    ELSE <<s[p]>>
    IN Join([p \in 1..Len(s) |-> piece(p)], 1, Len(s))

\* excel_updater.adjust_formula_row (59-73), on a cell value: None and a
\* value that is no str are returned as they are
adjust_formula_row(formula, old_row, new_row) ==
    IF formula.k = "none" THEN formula
    ELSE IF formula.k \notin {"text", "formula"} THEN formula
    ELSE [formula EXCEPT !.s = re_sub(formula.s, old_row, new_row)]

RECURSIVE adjust_rows(_, _, _)
adjust_rows(formula, rows, i) ==
    IF i > Len(rows) THEN formula
    ELSE adjust_rows(adjust_formula_row(formula, rows[i][1], rows[i][2]), rows, i + 1)

\* remaps of the Total section that feed one another: 38 -> 26 -> 25
total_remaps_chained == <<<<38, 26>>, <<14, 13>>, <<26, 25>>>>

\* the remaps of the Total section in the order of lines 417-419
total_remaps == <<<<38, 37>>, <<14, 13>>, <<26, 25>>>>

(***************************************************************************)
(* Calls of adjust_formula_row.  A formula is "=" and MaxRefs operands,     *)
(* separated by commas.                                                     *)
(***************************************************************************)
MaxRefs == 2

Operands ==
    {<<"$", "A", "1", "4">>, <<"B", "1", "4">>, <<"C", "$", "1", "4">>, <<"A", "I", "1", "4">>,
     <<"D", "2", "6">>, <<"E", "1", "4", "0">>, <<"F", "2", "1", "4">>, <<"1", "4">>,
     <<"G", "1", "0">>, <<"L", "O", "G", "1", "0", "(", "H", "2", ")">>,
     <<"F", "Y", "1", "4", "!", "A", "1">>, <<"S", "h", "e", "e", "t", "1", "4", "!", "A", "1">>,
     <<"$", "B", "$", "1", "4">>, <<"D", "3", "8">>, <<"G", "1", "3">>}

RECURSIVE FormulaTexts(_)
FormulaTexts(n) ==
    IF n = 0 THEN {<<"=">>}
    ELSE {f \o (IF n > 1 THEN <<",">> ELSE <<>>) \o o : f \in FormulaTexts(n - 1), o \in Operands}

\* "=IF(D$11>=$A14,$B14/$C14,0)", the example of the docstring (lines 63-65)
DocstringFormula ==
    <<"=", "I", "F", "(", "D", "$", "1", "1", ">", "=", "$", "A", "1", "4", ",",
      "$", "B", "1", "4", "/", "$", "C", "1", "4", ",", "0", ")">>

AdjustInputs ==
    {Formula(f) : f \in UNION {FormulaTexts(n) : n \in 1..MaxRefs}}
    \cup {Formula(DocstringFormula), Text(<<"B", "1", "4">>), NoneCell, Num(14), Date(2014)}

\* the (old_row, new_row) of the calls in Step 4, and one that shortens the text
RowPairs == {<<14, 13>>, <<26, 25>>, <<38, 37>>, <<10, 9>>}

Call_adjust_formula_row ==
    /\ ret.fn = "none"
    /\ \E formula \in AdjustInputs, rows \in RowPairs :
        ret' = [fn |-> "adjust_formula_row",
                a |-> [formula |-> formula, old_row |-> rows[1], new_row |-> rows[2]],
                r |-> adjust_formula_row(formula, rows[1], rows[2])]
    /\ UNCHANGED docvars

\* the three calls of lines 417-419 on a formula of row 38
Call_adjust_total_row ==
    /\ ret.fn = "none"
    /\ \E formula \in AdjustInputs :
        /\ formula.k = "formula"
        /\ ret' = [fn |-> "adjust_total_row",
                   a |-> [formula |-> formula, remaps |-> total_remaps],
                   r |-> adjust_rows(formula, total_remaps, 1)]
    /\ UNCHANGED docvars

NextAdjust ==
    \/ Call_adjust_formula_row
    \/ Call_adjust_total_row
    \/ Return

SpecAdjust == InitCalc /\ [][NextAdjust]_vars

Adjusted == ret.fn = "adjust_formula_row"
IsStr(v) == v.k \in {"text", "formula"}

\* where the digits of a column+row reference to the row start: a column
\* letter before them, and after them neither a digit, nor the "(" that makes
\* the name a function, nor the "!" that makes it a sheet
ReferenceStarts(s, row) ==
    {p \in 1..Len(s) :
        /\ p > 1 /\ s[p - 1] \in Upper
        /\ p + Len(Digits(row)) - 1 <= Len(s)
        /\ SubSeq(s, p, p + Len(Digits(row)) - 1) = Digits(row)
        /\ LET q == p + Len(Digits(row))
           IN q > Len(s) \/ s[q] \notin DigitSet \cup {"(", "!"}}

\* the text with the row of exactly these references replaced
Rewritten(s, old_row, new_row) ==
    LET starts == ReferenceStarts(s, old_row)
        piece(p) == IF p \in starts THEN Digits(new_row)
                    ELSE IF \E q \in starts : q < p /\ p < q + Len(Digits(old_row)) THEN <<>>
                    ELSE <<s[p]>>
    IN Join([p \in 1..Len(s) |-> piece(p)], 1, Len(s))

DocstringResult ==
    <<"=", "I", "F", "(", "D", "$", "1", "1", ">", "=", "$", "A", "1", "3", ",",
      "$", "B", "1", "3", "/", "$", "C", "1", "3", ",", "0", ")">>

\* C11: adjust_formula_row(formula, R, R') rewrites every column+row
\* reference to row R, with or without "$" before the column, to row R' and
\* nothing else; the docstring's formula, from 14 to 13, gives
\* "=IF(D$11>=$A13,$B13/$C13,0)".
C11_RewritesReferencesOnly ==
    (Adjusted /\ IsStr(ret.a.formula)) =>
        /\ ret.r.s = Rewritten(ret.a.formula.s, ret.a.old_row, ret.a.new_row)
        /\ (ret.a.formula.s = DocstringFormula /\ ret.a.old_row = 14 /\ ret.a.new_row = 13)
              => ret.r.s = DocstringResult

\* p lies in a run of digits that is exactly "14"
InRow14(s, p) ==
    \E q \in {p - 1, p} :
        /\ q >= 1 /\ q + 1 <= Len(s)
        /\ s[q] = "1" /\ s[q + 1] = "4"
        /\ (q = 1 \/ s[q - 1] \notin DigitSet)
        /\ (q + 2 > Len(s) \/ s[q + 2] \notin DigitSet)

\* C12: adjust_formula_row(formula, 14, 13) changes no character outside a
\* row number 14 (a reference to row 26, 140 or 214 stays as it is), and
\* an input that is None or no string is returned as it is.
C12_OtherRowsUnchanged ==
    Adjusted =>
        /\ ~IsStr(ret.a.formula) => ret.r = ret.a.formula
        /\ (IsStr(ret.a.formula) /\ ret.a.old_row = 14 /\ ret.a.new_row = 13) =>
              /\ Len(ret.r.s) = Len(ret.a.formula.s)
              /\ ret.r.k = ret.a.formula.k
              /\ \A p \in 1..Len(ret.r.s) :
                    ret.r.s[p] # ret.a.formula.s[p] => InRow14(ret.a.formula.s, p)

\* a call that rewrote B14 in a formula that also refers to row 140
C12_Witness ==
    /\ Adjusted
    /\ ret.a.old_row = 14
    /\ ret.a.formula = Formula(<<"=", "B", "1", "4", ",", "E", "1", "4", "0">>)
    /\ ret.r = Formula(<<"=", "B", "1", "3", ",", "E", "1", "4", "0">>)

SheetS(h, name) == [op |-> "sheet", h |-> h, a |-> <<name, "", 0>>, x |-> NoVar, e |-> LitE(NoneCell)]
ReadS(h, sheet, col, row, x) == [op |-> "read", h |-> h, a |-> <<sheet, col, row>>, x |-> x, e |-> LitE(NoneCell)]
WriteS(sheet, col, row, e) == [op |-> "write", h |-> "wb", a |-> <<sheet, col, row>>, x |-> NoVar, e |-> e]
FmtS(sheet, col, row) == [op |-> "fmt", h |-> "wb", a |-> <<sheet, col, row>>, x |-> NoVar, e |-> LitE(NoneCell)]

Truthy(c) == ~(c.k = "none" \/ (c.k = "num" /\ c.n = 0) \/ (c.k = "text" /\ c.s = <<>>))

Eval(e, loc) ==
    LET v == Get(loc, e.x)
    IN IF e.k = "lit" THEN e.c
       ELSE IF e.k = "var" THEN v
       ELSE IF e.k = "round0"
       THEN IF ~Truthy(v) THEN Num(0)
            ELSE IF v.k = "num" THEN Num(Money(Round(v.n)))
            ELSE ErrorCell("TypeError")
       ELSE IF v.k = "formula" \/ (e.k = "adjust_str" /\ v.k = "text" /\ v.s # <<>>)
       THEN adjust_rows(v, e.r, 1)
       ELSE SkipCell

Event(stmt) == [op |-> stmt.op, h |-> stmt.h, a |-> stmt.a]

\* one statement; st = [wb, loc, log, err].  A column that is no column
\* letter ("?") makes the cell lookup raise.
ExecStmt(stmt, st) ==
    IF stmt.a[2] = "?"
    THEN [st EXCEPT !.err = "ValueError"]
    ELSE IF stmt.op = "sheet"
    THEN IF stmt.a[1] \in sheets
         THEN [st EXCEPT !.log = Append(@, Event(stmt))]
         ELSE [st EXCEPT !.err = "KeyError"]
    ELSE IF stmt.op = "read"
    THEN [st EXCEPT !.loc = Put(@, stmt.x, IF stmt.h = "wb" THEN Get(st.wb, stmt.a)
                                            ELSE Get(wb_data, stmt.a)),
                    !.log = Append(@, Event(stmt))]
    ELSE IF stmt.op = "write"
    THEN LET c == Eval(stmt.e, st.loc)
         IN IF c.k = "error"
            THEN [st EXCEPT !.err = c.s[1]]
            ELSE IF c.k = "skip"
            THEN st
            ELSE [st EXCEPT !.wb = Put(@, stmt.a, c),
                            !.log = Append(@, Event(stmt))]
    ELSE [st EXCEPT !.log = Append(@, Event(stmt))]

\* the statements lo..hi in order; nothing runs after a statement that raised
RECURSIVE Exec(_, _, _, _)
Exec(stmts, lo, hi, st) ==
    IF lo > hi THEN st
    ELSE IF lo = hi
    THEN IF st.err # "" THEN st ELSE ExecStmt(stmts[lo], st)
    ELSE LET mid == (lo + hi) \div 2
         IN CHOOSE r \in {Exec(stmts, mid + 1, hi, s) : s \in {Exec(stmts, lo, mid, st)}} : TRUE

\* a statement list run from its first statement on
Run(stmts, st) == CHOOSE r \in {Exec(ss, 1, Len(ss), st) : ss \in {stmts}} : TRUE

\* a step whose exception is swallowed: the run goes on
Step_swallow(at, stmts, next) ==
    /\ pc = at
    /\ LET st == Run(stmts, [wb |-> wb, loc |-> <<>>, log |-> log, err |-> ""])
       IN /\ wb' = st.wb
          /\ log' = st.log
          /\ pc' = next
    /\ UNCHANGED <<ret, variant, upd, sheets, wb0, wb_data, open, out, prev>>

\* a step of a run: its statements from the first on, until one raises
Step(at, stmts, next) ==
    /\ pc = at
    /\ LET st == Run(stmts, [wb |-> wb, loc |-> <<>>, log |-> log, err |-> ""])
       IN /\ wb' = st.wb
          /\ log' = st.log
          /\ pc' = IF st.err = "" THEN next ELSE "raised"
    /\ UNCHANGED <<ret, variant, upd, sheets, wb0, wb_data, open, out, prev>>

(***************************************************************************)
(* Sheets, columns and rows the updaters address                           *)
(***************************************************************************)
RSI == "RSI"
Amort == "AmortDeferredOutsIns"
Assumptions == "Assumptions"
ProVal1 == "ProVal1"
NetOPEB == "Net OPEB"
ModelInputs == "Model Inputs"
OpebExp == "OPEB Exp & Def"
Table7 == "Table7AmortDeferred"

\* chr(ord('B') + year - 2018): 2018 = B ... 2024 = H, 2025 = I; outside A..Z
\* the character is no column letter
year_to_col(year) ==
    IF year - 2016 \in 1..Len(Letters) THEN Letters[year - 2016] ELSE "?"

\* excel_updater: rsi_rows (line 292)
rsi_rows_excel == <<3, 4, 5, 6, 7, 8, 9, 10, 12, 14, 17, 20, 23, 26, 27, 28>>
\* gasb75_updater line 269, run_valuation line 412
rsi_rows == <<3, 4, 5, 6, 7, 8, 9, 10, 12, 14, 17, 20, 26>>

\* the pairs (src, dst) of the two shift loops of excel_updater (439, 443)
shift_experience == <<<<13, 14>>, <<14, 15>>, <<15, 16>>, <<16, 17>>, <<17, 18>>, <<18, 19>>>>
shift_assumptions == <<<<23, 24>>, <<24, 25>>, <<25, 26>>, <<26, 27>>, <<27, 28>>, <<28, 29>>>>

\* for row in rows: statement(row)
ForEach(rows, S(_)) == [i \in 1..Len(rows) |-> S(rows[i])]
\* for row in rows: first(row); second(row)
ForEach2(rows, S1(_), S2(_)) ==
    [j \in 1..(2 * Len(rows)) |->
        IF j % 2 = 1 THEN S1(rows[(j + 1) \div 2]) ELSE S2(rows[j \div 2])]
Range(a, b) == [i \in 1..(b - a + 1) |-> a + i - 1]

(***************************************************************************)
(* The new-period RSI column (rows 3..28), as the three updaters write it  *)
(***************************************************************************)
rsi_formulas(col) ==
    <<WriteS(RSI, col, 3, LitE(Formula(<<"=YEAR(Assumptions!C4)">>))),
      WriteS(RSI, col, 4, LitE(Formula(<<"='Net OPEB'!D14">>))),
      WriteS(RSI, col, 5, LitE(Formula(<<"='Net OPEB'!D16">>))),
      WriteS(RSI, col, 6, LitE(Formula(<<"='Net OPEB'!D20">>))),
      WriteS(RSI, col, 7, LitE(Formula(<<"='Net OPEB'!D22">>))),
      WriteS(RSI, col, 8, LitE(Formula(<<"='Net OPEB'!D18">>))),
      WriteS(RSI, col, 9, LitE(Formula(<<"='Net OPEB'!D24">>))),
      WriteS(RSI, col, 10, LitE(Formula(<<"='Net OPEB'!D27">>))),
      WriteS(RSI, col, 12, LitE(Formula(<<"='Net OPEB'!D12">>))),
      WriteS(RSI, col, 14, LitE(Formula(<<"='Net OPEB'!D29">>)))>>

\* gasb75_updater 283-297 and run_valuation 425-439
rsi_new_column(col, covered_payroll) ==
    rsi_formulas(col) \o
    <<WriteS(RSI, col, 17, LitE(Num(Money(covered_payroll)))),
      WriteS(RSI, col, 20, LitE(Formula(<<"=", col, "14/", col, "17">>))),
      WriteS(RSI, col, 26, LitE(Formula(<<"=AmortDeferredOutsIns!C6">>))),
      WriteS(RSI, col, 27, LitE(Text(<<"Pub-2010/2021">>))),
      WriteS(RSI, col, 28, LitE(Text(<<"Getzen model">>)))>>

\* excel_updater 306-326
rsi_new_column_excel(covered_payroll_new, benefit_changes, new_discount_rate) ==
    rsi_formulas("I") \o
    <<WriteS(RSI, "I", 17, LitE(Num(Money(covered_payroll_new)))),
      WriteS(RSI, "I", 20, LitE(Formula(<<"=I14/I17">>))),
      WriteS(RSI, "I", 23, LitE(Text(benefit_changes))),
      WriteS(RSI, "I", 26, LitE(Num(new_discount_rate))),
      WriteS(RSI, "I", 27, LitE(Text(<<"Pub-2010/2021">>))),
      WriteS(RSI, "I", 28, LitE(Text(<<"Getzen model">>)))>>

(***************************************************************************)
(* The ARSL shift                                                          *)
(***************************************************************************)
\* the loop with its source read from the handle it writes to
shift_loop_sameHandle(pairs) ==
    ForEach2(pairs,
             LAMBDA p : ReadS("wb", Amort, "C", p[1], <<"src", p[1]>>),
             LAMBDA p : WriteS(Amort, "C", p[2], VarE(<<"src", p[1]>>)))

\* excel_updater 439-444: for src, dst in pairs:
\*     amort[f'C{dst}'] = amort_data[f'C{src}'].value
shift_loop(pairs) ==
    ForEach2(pairs,
             LAMBDA p : ReadS("wb_data", Amort, "C", p[1], <<"src", p[1]>>),
             LAMBDA p : WriteS(Amort, "C", p[2], VarE(<<"src", p[1]>>)))

\* the shift without its last assignment, C19 = c18_val
shift_captured_short ==
    ForEach(Range(13, 18), LAMBDA r : ReadS("wb_data", Amort, "C", r, <<"val", r>>))
    \o ForEach(Range(13, 17), LAMBDA r : WriteS(Amort, "C", r + 1, VarE(<<"val", r>>)))

\* gasb75_updater 308-322 and run_valuation 451-465: c13_val .. c18_val are
\* captured, then C14 .. C19 are written
shift_captured ==
    ForEach(Range(13, 18), LAMBDA r : ReadS("wb_data", Amort, "C", r, <<"val", r>>))
    \o ForEach(Range(13, 18), LAMBDA r : WriteS(Amort, "C", r + 1, VarE(<<"val", r>>)))

(***************************************************************************)
(* excel_updater.calculate_roll_forward, lines 160-167: the sensitivities  *)
(* (in 1/(100 * Scale) dollars) and the new covered payroll (in cents,     *)
(* payroll_growth_rate in percent)                                         *)
(***************************************************************************)
roll_forward_sensitivities(eoy_tol, duration, trend_duration) ==
    [sensitivity_disc_plus |-> eoy_tol * (100 - duration),
     sensitivity_disc_minus |-> eoy_tol * (100 + duration),
     sensitivity_trend_plus |-> eoy_tol * (100 + trend_duration),
     sensitivity_trend_minus |-> eoy_tol * (100 - trend_duration)]

covered_payroll_new(inputs) ==
    inputs.covered_payroll_prior * (100 + inputs.payroll_growth_rate)

(***************************************************************************)
(* update_roll_forward_excel (excel_updater 189-456), step by step         *)
(***************************************************************************)
SheetOrder == <<RSI, Amort, Assumptions, ProVal1, NetOPEB, ModelInputs, OpebExp, Table7>>

\* Step 0, lines 225-227
excel_step0 ==
    SelectSeq(ForEach(SheetOrder, LAMBDA n : FmtS(n, "", 0)),
              LAMBDA st : st.a[1] \in sheets)

\* Step 0.5, lines 233-235
excel_step0_5 ==
    <<SheetS("wb", OpebExp)>>
    \o ForEach(Range(6, 28), LAMBDA r : WriteS(OpebExp, "C", r, LitE(NoneCell)))

MoneyCell(x) == LitE(Num(Money(x)))

\* Step 1, lines 241-273
excel_step1(inputs, results) ==
    LET sens == roll_forward_sensitivities(results.eoy_tol, inputs.duration,
                                           inputs.trend_duration)
        payroll == RoundAt(covered_payroll_new(inputs), 100)
        cols == <<"D", "E", "F", "G", "H", "I">>
    IN <<SheetS("wb", ModelInputs),
         WriteS(ModelInputs, "B", 19, LitE(Num(results.boy_tol_old_rate))),
         WriteS(ModelInputs, "C", 19, MoneyCell(Round(results.boy_tol_new_rate))),
         WriteS(ModelInputs, "D", 19, MoneyCell(Round(results.eoy_tol))),
         WriteS(ModelInputs, "E", 19, MoneyCell(RoundAt(sens.sensitivity_disc_plus, 100 * Scale))),
         WriteS(ModelInputs, "F", 19, MoneyCell(RoundAt(sens.sensitivity_disc_minus, 100 * Scale))),
         WriteS(ModelInputs, "G", 19, MoneyCell(Round(results.eoy_tol))),
         WriteS(ModelInputs, "H", 19, MoneyCell(RoundAt(sens.sensitivity_trend_plus, 100 * Scale))),
         WriteS(ModelInputs, "I", 19, MoneyCell(RoundAt(sens.sensitivity_trend_minus, 100 * Scale))),
         WriteS(ModelInputs, "B", 38, LitE(Num(results.service_cost))),
         WriteS(ModelInputs, "C", 38, LitE(Num(results.service_cost))),
         WriteS(ModelInputs, "D", 38, LitE(Num(results.service_cost))),
         WriteS(ModelInputs, "B", 17, MoneyCell(inputs.covered_payroll_prior)),
         WriteS(ModelInputs, "C", 17, MoneyCell(inputs.covered_payroll_prior))>>
       \o ForEach(cols, LAMBDA c : WriteS(ModelInputs, c, 17, MoneyCell(payroll)))
       \o <<WriteS(ModelInputs, "B", 77, LitE(Date(inputs.prior_measurement_date))),
            WriteS(ModelInputs, "C", 77, LitE(Date(inputs.prior_measurement_date)))>>
       \o ForEach(cols, LAMBDA c : WriteS(ModelInputs, c, 77, LitE(Date(inputs.new_measurement_date))))
       \o <<WriteS(ModelInputs, "B", 88, LitE(Num(inputs.prior_discount_rate))),
            WriteS(ModelInputs, "C", 88, LitE(Num(inputs.new_discount_rate))),
            WriteS(ModelInputs, "D", 88, LitE(Num(inputs.new_discount_rate)))>>

\* Step 2, lines 279-282
excel_step2 ==
    <<SheetS("wb", NetOPEB)>>
    \o ForEach(Range(22, 25), LAMBDA r : FmtS(NetOPEB, "D", r))

\* Step 3, lines 288-330: H is read, I is formatted and written, H is hardcoded
excel_step3(inputs) ==
    <<SheetS("wb", RSI), SheetS("wb_data", RSI)>>
    \o ForEach(rsi_rows_excel, LAMBDA r : ReadS("wb_data", RSI, "H", r, <<"h_values", r>>))
    \o ForEach(rsi_rows_excel, LAMBDA r : FmtS(RSI, "I", r))
    \o rsi_new_column_excel(RoundAt(covered_payroll_new(inputs), 100),
                            inputs.benefit_changes, inputs.new_discount_rate)
    \o ForEach(rsi_rows_excel, LAMBDA r : WriteS(RSI, "H", r, VarE(<<"h_values", r>>)))

\* the experience amount with its sign ignored below zero
clamping_formula_negative ==
    <<"=IF(", "'Net OPEB'!D22", "<", "0", ",", "0", ",", "'Net OPEB'!D22", ")">>

\* line 347: "=IF('Net OPEB'!D22<1,0,'Net OPEB'!D22)", in the parts of the IF
clamping_formula ==
    <<"=IF(", "'Net OPEB'!D22", "<", "1", ",", "0", ",", "'Net OPEB'!D22", ")">>

\* what Excel evaluates =IF(a<b,c,d) to, with `experience` in 'Net OPEB'!D22
\* (amounts in 1/Scale dollars); any other cell has no value here
IfValue(cell, experience) ==
    LET f == cell.s
        operand(t) == IF t = "'Net OPEB'!D22" THEN experience
                      ELSE Money(CHOOSE n \in 0..9 : DigitChars[n + 1] = t)
    IN IF cell.k = "formula" /\ Len(f) = 9 /\ f[1] = "=IF(" /\ f[3] = "<"
       THEN Num(IF operand(f[2]) < operand(f[4]) THEN operand(f[6]) ELSE operand(f[8]))
       ELSE NoneCell

\* Step 4, lines 336-422.  copy_row is the loop over D..AI of one section.
copy_row(src, dst, rows) ==
    ForEach(Range(1, 96),
            LAMBDA j : LET col == get_column_letter(4 + (j - 1) \div 3)
                       IN IF j % 3 = 1 THEN FmtS(Table7, col, dst)
                          ELSE IF j % 3 = 2 THEN ReadS("wb", Table7, col, src, <<"formula", 0>>)
                          ELSE WriteS(Table7, col, dst, AdjustFormulaE(<<"formula", 0>>, rows)))

excel_step4(inputs) ==
    <<SheetS("wb", Table7), SheetS("wb_data", Table7),
      FmtS(Table7, "A", 13),
      WriteS(Table7, "A", 13, LitE(Num(inputs.new_measurement_date))),
      FmtS(Table7, "B", 13),
      WriteS(Table7, "B", 13, LitE(Formula(clamping_formula))),
      FmtS(Table7, "C", 13),
      ReadS("wb", Table7, "C", 14, <<"c14", 0>>),
      WriteS(Table7, "C", 13, VarE(<<"c14", 0>>)),
      ReadS("wb_data", Table7, "B", 14, <<"b14_value", 0>>),
      WriteS(Table7, "B", 14, Round0E(<<"b14_value", 0>>)),
      FmtS(Table7, "B", 14),
      ReadS("wb_data", Table7, "C", 14, <<"c14_value", 0>>),
      WriteS(Table7, "C", 14, Round0E(<<"c14_value", 0>>))>>
    \o copy_row(14, 13, <<<<14, 13>>>>)
    \o <<WriteS(Table7, "AJ", 14, LitE(Num(1))),
         FmtS(Table7, "A", 25),
         WriteS(Table7, "A", 25, LitE(Num(inputs.new_measurement_date))),
         FmtS(Table7, "B", 25),
         ReadS("wb", Table7, "B", 26, <<"b26", 0>>),
         WriteS(Table7, "B", 25, VarE(<<"b26", 0>>)),
         FmtS(Table7, "C", 25),
         ReadS("wb", Table7, "C", 26, <<"c26_formula", 0>>),
         WriteS(Table7, "C", 25, AdjustStrE(<<"c26_formula", 0>>, <<<<14, 13>>>>)),
         ReadS("wb_data", Table7, "B", 26, <<"b26_value", 0>>),
         WriteS(Table7, "B", 26, Round0E(<<"b26_value", 0>>)),
         FmtS(Table7, "B", 26),
         ReadS("wb_data", Table7, "C", 26, <<"c26_value", 0>>),
         WriteS(Table7, "C", 26, Round0E(<<"c26_value", 0>>))>>
    \o copy_row(26, 25, <<<<26, 25>>>>)
    \o <<WriteS(Table7, "AJ", 26, LitE(Num(1))),
         FmtS(Table7, "A", 37),
         WriteS(Table7, "A", 37, LitE(Num(inputs.new_measurement_date))),
         FmtS(Table7, "B", 37),
         WriteS(Table7, "B", 37, LitE(Formula(<<"=B13+B25">>)))>>
    \o copy_row(38, 37, total_remaps)
    \o <<WriteS(Table7, "AJ", 38, LitE(Num(1)))>>

\* Step 6, lines 433-444
excel_step6(inputs) ==
    <<SheetS("wb", Amort), SheetS("wb_data", Amort),
      WriteS(Amort, "A", 13, LitE(Num(inputs.new_measurement_date)))>>
    \o shift_loop(shift_experience)
    \o shift_loop(shift_assumptions)

(***************************************************************************)
(* update_gasb75_file (gasb75_updater 212-392, run_valuation 365-548)      *)
(***************************************************************************)
\* gasb75_updater 244-251; run_valuation 388-389 takes the date from prior_data
prior_year(v, inputs) ==
    IF v = "gasb75"
    THEN LET c == Get(wb_data, <<Assumptions, "C", 4>>)
         IN IF c.k = "date" THEN c.n ELSE inputs.measurement_date - 1
    ELSE IF ~IsNone(inputs.prior_data_measurement_date)
         THEN Val(inputs.prior_data_measurement_date)
         ELSE inputs.measurement_date - 1

current_col(v, inputs) == year_to_col(prior_year(v, inputs))
new_col(inputs) == year_to_col(inputs.measurement_date)

\* gasb75_updater 244-245
gasb_years ==
    <<SheetS("wb_data", Assumptions),
      ReadS("wb_data", Assumptions, "C", 4, <<"current_measurement_date", 0>>)>>

\* Step 1, gasb75_updater 266-275, run_valuation 409-416
gasb_step1(v, inputs) ==
    <<SheetS("wb", RSI), SheetS("wb_data", RSI)>>
    \o ForEach2(rsi_rows,
                LAMBDA r : ReadS("wb_data", RSI, current_col(v, inputs), r, <<"current_value", 0>>),
                LAMBDA r : WriteS(RSI, current_col(v, inputs), r, VarE(<<"current_value", 0>>)))

\* Step 2, gasb75_updater 283-297, run_valuation 425-439
gasb_step2(inputs) == rsi_new_column(new_col(inputs), inputs.covered_payroll)

\* Step 3, gasb75_updater 305-322, run_valuation 448-465
gasb_step3 ==
    <<SheetS("wb", Amort), SheetS("wb_data", Amort)>> \o shift_captured

\* Step 4, gasb75_updater 333, run_valuation 482
gasb_step4(inputs) ==
    <<WriteS(Amort, "A", 13, LitE(Num(inputs.measurement_date)))>>

\* Step 5, gasb75_updater 339-344, run_valuation 489-494
gasb_step5(inputs) ==
    <<SheetS("wb", Assumptions),
      WriteS(Assumptions, "C", 2, LitE(Date(inputs.valuation_date))),
      WriteS(Assumptions, "C", 3, LitE(Date(inputs.prior_measurement_date))),
      WriteS(Assumptions, "C", 4, LitE(Date(inputs.measurement_date))),
      WriteS(Assumptions, "C", 11, LitE(Num(inputs.prior_discount_rate))),
      WriteS(Assumptions, "C", 12,
             LitE(TextN(RoundAt(inputs.new_discount_rate, 10),
                        <<"{:.2f}", "% annually which is the Bond Buyer 20-Bond General Obligation Index on the Measurement Date.  The 20-Bond Index consists of 20 general obligation bonds that mature in 20 years.">>)))>>

\* Step 6, gasb75_updater 351-367 (counts written unless None),
\* run_valuation 501-517 (G19 is the baseline; counts written when non-zero)
gasb_step6(v, inputs) ==
    <<SheetS("wb", ProVal1),
      WriteS(ProVal1, "B", 19, LitE(Num(inputs.tol_boy_old_rate))),
      WriteS(ProVal1, "C", 19, LitE(Num(inputs.tol_boy_new_rate))),
      WriteS(ProVal1, "D", 19, LitE(Num(inputs.tol_eoy_baseline))),
      WriteS(ProVal1, "E", 19, LitE(Num(inputs.tol_eoy_disc_plus_1))),
      WriteS(ProVal1, "F", 19, LitE(Num(inputs.tol_eoy_disc_minus_1))),
      WriteS(ProVal1, "G", 19, LitE(Num(IF v = "gasb75" THEN inputs.tol_eoy_trend_baseline
                                        ELSE inputs.tol_eoy_baseline))),
      WriteS(ProVal1, "H", 19, LitE(Num(inputs.tol_eoy_trend_plus_1))),
      WriteS(ProVal1, "I", 19, LitE(Num(inputs.tol_eoy_trend_minus_1))),
      WriteS(ProVal1, "B", 38, LitE(Num(inputs.service_cost))),
      WriteS(ProVal1, "D", 17, MoneyCell(inputs.covered_payroll)),
      WriteS(ProVal1, "D", 88, LitE(Num(inputs.new_discount_rate)))>>
    \o (IF ~IsNone(inputs.active_count) /\ (v = "gasb75" \/ Val(inputs.active_count) # 0)
        THEN <<WriteS(ProVal1, "D", 6, LitE(Num(Val(inputs.active_count))))>> ELSE <<>>)
    \o (IF ~IsNone(inputs.retiree_count) /\ (v = "gasb75" \/ Val(inputs.retiree_count) # 0)
        THEN <<WriteS(ProVal1, "D", 8, LitE(Num(Val(inputs.retiree_count))))>> ELSE <<>>)

\* Step 7, gasb75_updater 374-379, run_valuation 532-537
gasb_step7(inputs) ==
    <<SheetS("wb", NetOPEB),
      WriteS(NetOPEB, "A", 9, LitE(TextN(inputs.measurement_date,
          <<"Table 3: Changes in Net OPEB Liability for the plan's fiscal year ending ", "{md.month}/{md.day}/{md.year}">>))),
      WriteS(NetOPEB, "A", 12, LitE(TextN(inputs.prior_measurement_date,
          <<"Balances at ", "{pmd.month}/{pmd.day}/{pmd.year}">>))),
      WriteS(NetOPEB, "A", 29, LitE(TextN(inputs.measurement_date,
          <<"Balances at ", "{md.month}/{md.day}/{md.year}">>)))>>

(***************************************************************************)
(* The input document.  year is the measurement year Assumptions!C4 holds  *)
(* (0: the cell holds no date); the RSI column of that year holds the      *)
(* formulas the previous update wrote and the column before it literals;   *)
(* AmortDeferredOutsIns C13 and C23 hold the template's formula for the    *)
(* newest ARSL and C14..C19, C24..C29 the older values.  cached says       *)
(* whether the formula cells carry evaluated values (the file was          *)
(* recalculated in Excel after it was last written).                       *)
(***************************************************************************)
MaxArsl == 2
MaxStep == 1

DocYears == {0, 2024, 2025}
NewYears == {2025, 2026}
MissingSheets == {""} \cup {SheetOrder[i] : i \in 1..Len(SheetOrder)}

FormulaYear(d) == IF d.year = 0 THEN 2024 ELSE d.year
arsl_experience(d, row) == d.base + d.step * (row - 13)
arsl_assumptions(d, row) == d.base + 1 + d.step * (row - 23)

DocStmts(d) ==
    rsi_new_column(year_to_col(FormulaYear(d)), 900)
    \o ForEach(rsi_rows_excel,
               LAMBDA r : WriteS(RSI, year_to_col(FormulaYear(d) - 1), r, LitE(Num(500 + r))))
    \o <<WriteS(Assumptions, "C", 4,
                LitE(IF d.year = 0 THEN Text(<<"n/a">>) ELSE Date(d.year))),
         WriteS(ModelInputs, "D", 17, MoneyCell(1000)),
         WriteS(ModelInputs, "D", 19, LitE(Formula(<<"=ProVal1!D74">>))),
         WriteS(ModelInputs, "D", 38, MoneyCell(2)),
         WriteS(Amort, "A", 13, LitE(Num(FormulaYear(d)))),
         WriteS(Amort, "C", 13, LitE(Formula(<<"=ProVal1!D74">>))),
         WriteS(Amort, "C", 23, LitE(Formula(<<"=ProVal1!D74">>)))>>
    \o ForEach(Range(14, 19), LAMBDA r : WriteS(Amort, "C", r, LitE(Num(arsl_experience(d, r)))))
    \o ForEach(Range(24, 29), LAMBDA r : WriteS(Amort, "C", r, LitE(Num(arsl_assumptions(d, r)))))
    \o <<WriteS(Table7, "A", 14, LitE(Num(FormulaYear(d)))),
         WriteS(Table7, "B", 14, LitE(Formula(clamping_formula))),
         WriteS(Table7, "C", 14, LitE(Formula(<<"=", "A", "m", "o", "r", "t", "D", "e", "f", "e", "r", "r", "e", "d", "O", "u", "t", "s", "I", "n", "s", "!", "C", "1", "3">>))),
         WriteS(Table7, "D", 14, LitE(Formula(<<"=", "I", "F", "(", "D", "$", "1", "1", ">", "=", "$", "A", "1", "4", ",", "$", "B", "1", "4", "/", "$", "C", "1", "4", ",", "0", ")">>))),
         WriteS(Table7, "AI", 14, LitE(Formula(<<"=", "I", "F", "(", "A", "I", "$", "1", "1", ">", "=", "$", "A", "1", "4", ",", "$", "B", "1", "4", "/", "$", "C", "1", "4", ",", "0", ")">>))),
         WriteS(Table7, "A", 26, LitE(Num(FormulaYear(d)))),
         WriteS(Table7, "B", 26, LitE(Formula(<<"=", "'", "N", "e", "t", " ", "O", "P", "E", "B", "'", "!", "D", "2", "4">>))),
         WriteS(Table7, "C", 26, LitE(Formula(<<"=", "A", "m", "o", "r", "t", "D", "e", "f", "e", "r", "r", "e", "d", "O", "u", "t", "s", "I", "n", "s", "!", "C", "2", "3">>))),
         WriteS(Table7, "D", 26, LitE(Formula(<<"=", "I", "F", "(", "D", "$", "1", "1", ">", "=", "$", "A", "2", "6", ",", "$", "B", "2", "6", "/", "$", "C", "2", "6", ",", "0", ")">>))),
         WriteS(Table7, "AI", 26, LitE(Formula(<<"=", "I", "F", "(", "A", "I", "$", "1", "1", ">", "=", "$", "A", "2", "6", ",", "$", "B", "2", "6", "/", "$", "C", "2", "6", ",", "0", ")">>))),
         WriteS(Table7, "A", 38, LitE(Num(FormulaYear(d)))),
         WriteS(Table7, "B", 38, LitE(Formula(<<"=", "B", "1", "4", "+", "B", "2", "6">>))),
         WriteS(Table7, "D", 38, LitE(Formula(<<"=", "D", "1", "4", "+", "D", "2", "6">>))),
         WriteS(Table7, "AI", 38, LitE(Formula(<<"=", "A", "I", "1", "4", "+", "A", "I", "2", "6">>)))>>

DocFormulas(d) ==
    Run(DocStmts(d), [wb |-> <<>>, loc |-> <<>>, log |-> <<>>, err |-> ""]).wb

\* what Excel evaluated a formula cell to
Evaluated(d, a) ==
    IF a[1] = Amort THEN Num(IF a[3] = 13 THEN arsl_experience(d, 13)
                             ELSE arsl_assumptions(d, 23))
    ELSE IF a[1] = Table7 THEN Num(Money(1000 + a[3]) + Scale \div 2)
    ELSE IF a[1] = ModelInputs THEN Num(Money(10))
    ELSE Num(1000 + a[3])

\* the data_only view: literals as they are, formulas by their cached value
DataView(cells, d) ==
    [a \in DOMAIN cells |->
        IF cells[a].k # "formula" THEN cells[a]
        ELSE IF d.cached THEN Evaluated(d, a) ELSE NoneCell]

Document(d) == CHOOSE r \in {[f |-> c, v |-> DataView(c, d)] : c \in {DocFormulas(d)}} : TRUE

\* what wb.save writes: no cached value for a formula
Saved(cells) ==
    [f |-> cells,
     v |-> [a \in DOMAIN cells |-> IF cells[a].k = "formula" THEN NoneCell ELSE cells[a]]]

(***************************************************************************)
(* The arguments of a run                                                  *)
(***************************************************************************)
\* the two entry points of excel_updater
Entries == {"update_roll_forward_excel", "run_roll_forward"}

\* the call of an entry point: the fields of RollForwardInputs, the cells the
\* three amounts come from (run_roll_forward reads them from the document,
\* lines 500-502: none yet at the call) and results, None until calculated
ExcelInputs(entry, new_year) ==
    [entry |-> entry,
     cells |-> IF entry = "run_roll_forward" THEN <<>>
               ELSE <<Num(Money(10)), Num(Money(2)), Num(Money(1000))>>,
     results |-> None,
     prior_measurement_date |-> new_year - 1,
     new_measurement_date |-> new_year,
     prior_discount_rate |-> 3810,
     new_discount_rate |-> 5020,
     boy_tol_old_rate |-> 10,
     service_cost |-> 2,
     covered_payroll_prior |-> 1000,
     duration |-> 10,
     trend_duration |-> 5,
     payroll_growth_rate |-> 3,
     benefit_changes |-> <<"None">>]

\* GASB75UpdateInputs as update_gasb75_rollforward builds it (gasb75_updater
\* 422-456) and ValuationResults as run_rollforward returns it; the
\* sensitivities (tol_eoy * 0.92 ..) are in 1/(100 * Scale) dollars
GasbInputs(v, new_year, doc_year) ==
    LET calc == calculate_rollforward(10, 2, 3810, 5020, 0, 10)
    IN [valuation_date |-> new_year - 1,
        prior_measurement_date |-> new_year - 1,
        measurement_date |-> new_year,
        prior_data_measurement_date |-> IF doc_year = 0 THEN None ELSE Some(doc_year),
        prior_discount_rate |-> 3810,
        new_discount_rate |-> 5020,
        tol_boy_old_rate |-> calc.tol_boy_old_rate,
        tol_boy_new_rate |-> calc.tol_boy_new_rate,
        tol_eoy_baseline |-> calc.tol_eoy_baseline,
        tol_eoy_disc_plus_1 |-> calc.tol_eoy_baseline * 92,
        tol_eoy_disc_minus_1 |-> calc.tol_eoy_baseline * 108,
        tol_eoy_trend_baseline |-> calc.tol_eoy_baseline,
        tol_eoy_trend_plus_1 |-> calc.tol_eoy_baseline * 104,
        tol_eoy_trend_minus_1 |-> calc.tol_eoy_baseline * 96,
        service_cost |-> calc.service_cost,
        covered_payroll |-> 1000,
        active_count |-> Some(0),
        retiree_count |-> IF v = "gasb75" THEN None ELSE Some(3)]

(***************************************************************************)
(* The update run                                                          *)
(***************************************************************************)
\* where a call begins: run_roll_forward with the extraction, the excel
\* update with the calculation, the gasb updates with the two loads
StartPc(v, call) ==
    IF v # "excel" THEN "load"
    ELSE IF call.entry = "run_roll_forward" THEN "extract" ELSE "calc"

Init ==
    /\ ret = IdleRet
    /\ \E d \in [year : DocYears, cached : BOOLEAN, base : 1..MaxArsl, step : 0..MaxStep] :
        /\ wb0 = Document(d)
        /\ \E v \in {"excel", "gasb75", "runval"}, ny \in NewYears :
            /\ variant = v
            /\ \E entry \in IF v = "excel" THEN Entries ELSE {v} :
                upd = IF v = "excel" THEN ExcelInputs(entry, ny)
                      ELSE GasbInputs(v, ny, d.year)
    /\ \E missing \in MissingSheets :
        sheets = {SheetOrder[i] : i \in 1..Len(SheetOrder)} \ {missing}
    /\ pc = StartPc(variant, upd)
    /\ wb = <<>>
    /\ wb_data = <<>>
    /\ log = <<>>
    /\ open = {}
    /\ out = None
    /\ prev = None

\* run_roll_forward, lines 497-504: the amounts of the prior year, read from
\* the evaluated values of a handle that is closed before anything else
\* happens; a missing sheet raises KeyError with that handle open
Excel_Extract ==
    /\ variant = "excel"
    /\ pc = "extract"
    /\ IF ModelInputs \in sheets
       THEN /\ upd' = [upd EXCEPT !.cells = <<Get(wb0.v, <<ModelInputs, "D", 19>>),
                                              Get(wb0.v, <<ModelInputs, "D", 38>>),
                                              Get(wb0.v, <<ModelInputs, "D", 17>>)>>]
            /\ pc' = "calc"
            /\ open' = open
       ELSE /\ pc' = "raised"
            /\ open' = {"wb_data"}
            /\ upd' = upd
    /\ UNCHANGED <<ret, variant, sheets, wb0, wb, wb_data, log, out, prev>>

\* RollForwardInputs of the three amounts, in whole dollars
WithAmounts(call, boy, sc, payroll) ==
    [call EXCEPT !.boy_tol_old_rate = boy \div Scale,
                 !.service_cost = sc \div Scale,
                 !.covered_payroll_prior = payroll \div Scale]

Calculated(inputs) == [inputs EXCEPT !.results = Some(calculate_roll_forward(inputs))]

\* the calculation with an amount that is not a number taken as 0
Excel_Calculate_defaults ==
    /\ variant = "excel"
    /\ pc = "calc"
    /\ upd' = Calculated(WithAmounts(upd, upd.cells[1].n, upd.cells[2].n, upd.cells[3].n))
    /\ pc' = "load"
    /\ UNCHANGED <<ret, variant, sheets, wb0, wb, wb_data, log, open, out, prev>>

\* results = calculate_roll_forward(inputs), before any workbook is loaded
\* for the update (lines 209-211 and 522): arithmetic on an amount that is
\* not a number raises TypeError
Excel_Calculate ==
    /\ variant = "excel"
    /\ pc = "calc"
    /\ IF \A i \in 1..3 : upd.cells[i].k = "num"
       THEN /\ upd' = Calculated(WithAmounts(upd, upd.cells[1].n, upd.cells[2].n, upd.cells[3].n))
            /\ pc' = "load"
       ELSE /\ pc' = "raised"
            /\ upd' = upd
    /\ UNCHANGED <<ret, variant, sheets, wb0, wb, wb_data, log, open, out, prev>>

\* load_workbook(input) and load_workbook(input, data_only=True)
Load ==
    /\ pc = "load"
    /\ wb' = wb0.f
    /\ wb_data' = wb0.v
    /\ open' = {"wb", "wb_data"}
    /\ pc' = IF variant = "excel" THEN "x0"
             ELSE IF variant = "gasb75" THEN "years" ELSE "g1"
    /\ UNCHANGED <<ret, variant, upd, sheets, wb0, log, out, prev>>

Excel_Step0 == variant = "excel" /\ Step("x0", excel_step0, "x0_5")
Excel_Step0_5 == variant = "excel" /\ Step("x0_5", excel_step0_5, "x1")
Excel_Step1 == variant = "excel" /\ Step("x1", excel_step1(upd, Val(upd.results)), "x2")
Excel_Step2 == variant = "excel" /\ Step("x2", excel_step2, "x3")
Excel_Step3 == variant = "excel" /\ Step("x3", excel_step3(upd), "x4")
Excel_Step4 == variant = "excel" /\ Step("x4", excel_step4(upd), "x6")
Excel_Step6 == variant = "excel" /\ Step("x6", excel_step6(upd), "save")

Gasb_Years == variant = "gasb75" /\ Step("years", gasb_years, "g1")
Gasb_Step1 == variant # "excel" /\ Step("g1", gasb_step1(variant, upd), "g2")
Gasb_Step2 == variant # "excel" /\ Step("g2", gasb_step2(upd), "g3")
Gasb_Step3 == variant # "excel" /\ Step("g3", gasb_step3, "g4")
Gasb_Step4 == variant # "excel" /\ Step("g4", gasb_step4(upd), "g5")
Gasb_Step5 == variant # "excel" /\ Step("g5", gasb_step5(upd), "g6")
Gasb_Step6 == variant # "excel" /\ Step("g6", gasb_step6(variant, upd), "g7")
Gasb_Step7 == variant # "excel" /\ Step("g7", gasb_step7(upd), "save")

\* wb.save(output); wb.close(); wb_data.close()
Save ==
    /\ pc = "save"
    /\ out' = Some(Saved(wb))
    /\ open' = {}
    /\ pc' = "done"
    /\ UNCHANGED <<ret, variant, upd, sheets, wb0, wb, wb_data, log, prev>>


\* the caller runs the update once more, for the following year, with the
\* output of the finished run as the input document
Rerun ==
    /\ pc = "done"
    /\ IsNone(prev)
    /\ prev' = Some(wb0)
    /\ wb0' = Val(out)
    /\ upd' = IF variant = "excel" THEN ExcelInputs(upd.entry, upd.new_measurement_date + 1)
              ELSE LET c4 == Get(Val(out).v, <<Assumptions, "C", 4>>)
                   IN GasbInputs(variant, upd.measurement_date + 1,
                                 IF c4.k = "date" THEN c4.n ELSE 0)
    /\ pc' = StartPc(variant, upd')
    /\ wb' = <<>>
    /\ wb_data' = <<>>
    /\ log' = <<>>
    /\ open' = {}
    /\ out' = None
    /\ UNCHANGED <<ret, variant, sheets>>

Next ==
    \/ Excel_Extract
    \/ Excel_Calculate
    \/ Load
    \/ Excel_Step0
    \/ Excel_Step0_5
    \/ Excel_Step1
    \/ Excel_Step2
    \/ Excel_Step3
    \/ Excel_Step4
    \/ Excel_Step6
    \/ Gasb_Years
    \/ Gasb_Step1
    \/ Gasb_Step2
    \/ Gasb_Step3
    \/ Gasb_Step4
    \/ Gasb_Step5
    \/ Gasb_Step6
    \/ Gasb_Step7
    \/ Save
    \/ Rerun

Spec == Init /\ [][Next]_vars

(***************************************************************************)
(* The output verifier.  verify_roll_forward_output opens the document at  *)
(* output_path with data_only=True (its handle is named wb), reads four    *)
(* cells, closes the handle and returns the report.  Texts are sequences   *)
(* of characters here.                                                     *)
(***************************************************************************)
Lowers == <<"a", "b", "c", "d", "e", "f", "g", "h", "i", "j", "k", "l", "m",
            "n", "o", "p", "q", "r", "s", "t", "u", "v", "w", "x", "y", "z">>

\* str.upper()
upper(s) ==
    [i \in 1..Len(s) |->
        IF \E j \in 1..Len(Lowers) : Lowers[j] = s[i]
        THEN Letters[CHOOSE j \in 1..Len(Lowers) : Lowers[j] = s[i]]
        ELSE s[i]]

\* str() of a cell value
str(c) ==
    IF c.k \in {"text", "formula"} THEN c.s
    ELSE IF c.k = "num" THEN Digits(c.n)
    ELSE <<"N", "o", "n", "e">>

\* str.strip() != ''
strip_nonempty(s) == \E i \in 1..Len(s) : s[i] # " "

GOOD == <<"G", "O", "O", "D">>

\* str(v).upper() == 'GOOD' if v else False
is_good(v) == IF Truthy(v) THEN upper(str(v)) = GOOD ELSE FALSE

\* isinstance(v, (int, float))
is_number(v) == v.k = "num"

\* v is not None and str(v).strip() != ''
has_value(v) == v.k # "none" /\ strip_nonempty(str(v))

\* any() in the place of all()
any_passed(checks) == \E n \in DOMAIN checks : checks[n].passed

\* all(c['passed'] for c in results['checks'].values())
all_passed(checks) == \A n \in DOMAIN checks : checks[n].passed

verify_stmts ==
    <<SheetS("wb", Table7), ReadS("wb", Table7, "AI", 49, <<"ai49", 0>>),
      SheetS("wb", OpebExp), ReadS("wb", OpebExp, "H", 40, <<"h40", 0>>),
      SheetS("wb", RSI), ReadS("wb", RSI, "I", 26, <<"i26", 0>>),
      ReadS("wb", RSI, "I", 23, <<"i23", 0>>)>>

\* results['checks'] from the four cell values
verify_checks(loc) ==
    LET ai49 == Get(loc, <<"ai49", 0>>)
        h40 == Get(loc, <<"h40", 0>>)
        i26 == Get(loc, <<"i26", 0>>)
        i23 == Get(loc, <<"i23", 0>>)
    IN [n \in {"Table7AmortDeferred_AI49", "OPEB_Exp_Def_H40",
               "RSI_I26_is_number", "RSI_I23_has_value"} |->
        IF n = "Table7AmortDeferred_AI49"
        THEN [expected |-> "GOOD", actual |-> ai49, passed |-> is_good(ai49)]
        ELSE IF n = "OPEB_Exp_Def_H40"
        THEN [expected |-> "GOOD", actual |-> h40, passed |-> is_good(h40)]
        ELSE IF n = "RSI_I26_is_number"
        THEN [expected |-> "numeric value", actual |-> i26, passed |-> is_number(i26)]
        ELSE [expected |-> "non-empty", actual |-> i23, passed |-> has_value(i23)]]

\* the values a health cell, the rate cell and the date cell may hold in the
\* data_only view (None: empty, or a formula saved without a cached value)
HealthValues ==
    {Text(GOOD), Text(<<"g", "o", "o", "d">>), Text(<<"G", "o", "o", "d", " ">>),
     Text(<<"E", "R", "R", "O", "R">>), Text(<<>>), NoneCell, Num(0), Num(1)}
RateValues == {Num(5020), Num(0), NoneCell, Text(<<"5", ".", "0", "2", "%">>)}
DateValues == {Text(<<"6", "/", "3", "0", "/", "2", "5">>), Text(<<" ", " ">>), Text(<<>>), NoneCell, Num(0)}
VerifySheets == {Table7, OpebExp, RSI}

VerifyDocument(ai49, h40, i26, i23) ==
    LET cells == (<<Table7, "AI", 49>> :> ai49) @@ (<<OpebExp, "H", 40>> :> h40)
                 @@ (<<RSI, "I", 26>> :> i26) @@ (<<RSI, "I", 23>> :> i23)
    IN [f |-> cells, v |-> cells]

InitVerify ==
    /\ ret = IdleRet
    /\ variant = "verify"
    /\ upd = <<>>
    /\ pc = "verify"
    /\ \E ai49 \in HealthValues, h40 \in HealthValues, i26 \in RateValues, i23 \in DateValues :
        wb0 = VerifyDocument(ai49, h40, i26, i23)
    /\ \E missing \in {""} \cup VerifySheets : sheets = VerifySheets \ {missing}
    /\ wb = <<>>
    /\ wb_data = <<>>
    /\ log = <<>>
    /\ open = {}
    /\ out = None
    /\ prev = None

Call_verify_roll_forward_output ==
    /\ pc = "verify"
    /\ ret.fn = "none"
    /\ LET st == Run(verify_stmts, [wb |-> wb0.v, loc |-> <<>>, log |-> <<>>, err |-> ""])
           checks == verify_checks(st.loc)
       IN /\ wb' = st.wb
          /\ log' = st.log
          /\ open' = IF st.err = "" THEN {} ELSE {"wb"}
          /\ pc' = IF st.err = "" THEN "done" ELSE "raised"
          /\ ret' = [fn |-> "verify_roll_forward_output",
                     a |-> [output_path |-> wb0],
                     r |-> IF st.err # "" THEN [raised |-> st.err]
                           ELSE [raised |-> "", checks |-> checks,
                                 passed |-> all_passed(checks)]]
    /\ UNCHANGED <<variant, upd, sheets, wb0, wb_data, out, prev>>

NextVerify ==
    \/ Call_verify_roll_forward_output
    \/ Return

SpecVerify == InitVerify /\ [][NextVerify]_vars

(***************************************************************************)
(* The series shift of a finished run                                      *)
(***************************************************************************)
Finished == pc = "done"
Output == Val(out).f
ArslCell(row) == <<Amort, "C", row>>

\* the series with newest slot `first` is shifted by one: each older slot
\* holds the evaluated value its neighbour had at open, the newest slot is
\* the cell the document had
Shifted(first) ==
    /\ \A k \in first..(first + 5) :
           Get(Output, ArslCell(k + 1)) = Get(wb0.v, ArslCell(k))
    /\ Get(Output, ArslCell(first)) = Get(wb0.f, ArslCell(first))

\* the rows of column C of AmortDeferredOutsIns the run has written
WrittenArslRows ==
    {log[i].a[3] : i \in {j \in 1..Len(log) :
        log[j].op = "write" /\ log[j].a[1] = Amort /\ log[j].a[2] = "C"}}

\* C9: after an update run, C14..C19 of AmortDeferredOutsIns hold the
\* evaluated values C13..C18 had when the document was opened, the run
\* wrote no slot but C14..C19 (the old C19 has no slot left, C13 keeps its
\* formula); update_roll_forward_excel does the same with C23..C29.
C9_SeriesShifted ==
    Finished =>
        /\ Shifted(13)
        /\ variant = "excel" => Shifted(23)
        /\ WrittenArslRows = IF variant = "excel" THEN (14..19) \cup (24..29) ELSE 14..19

\* a finished excel run on a recalculated document whose slots all differ
C9_Witness ==
    /\ Finished
    /\ variant = "excel"
    /\ Get(wb0.f, ArslCell(13)).k = "formula"
    /\ Get(wb0.v, ArslCell(13)).k = "num"
    /\ \A k \in 13..18 : Get(wb0.v, ArslCell(k)) # Get(wb0.v, ArslCell(k + 1))
    /\ Get(Output, ArslCell(19)) # Get(wb0.f, ArslCell(19))

\* the positions in the log of the reads and writes of the series with
\* newest slot `first`
SourceReads(first) ==
    {i \in 1..Len(log) : log[i].op = "read" /\ log[i].a[1] = Amort
                          /\ log[i].a[2] = "C" /\ log[i].a[3] \in first..(first + 5)}
DestinationWrites(first) ==
    {i \in 1..Len(log) : log[i].op = "write" /\ log[i].a[1] = Amort
                          /\ log[i].a[2] = "C" /\ log[i].a[3] \in (first + 1)..(first + 6)}

\* C10: in the series shift every source slot is read before the first
\* destination slot is written: no read of a source slot follows a
\* destination write of the same shift.
C10_SnapshotBeforeWrite ==
    \A first \in {13, 23} :
        \A r \in SourceReads(first), w \in DestinationWrites(first) : r < w

(***************************************************************************)
(* The order of the writes of a run                                        *)
(***************************************************************************)
Writes == SelectSeq(log, LAMBDA e : e.op = "write")

\* the RSI column of the new period
NewPeriodColumn == IF variant = "excel" THEN "I" ELSE new_col(upd)

\* the state of the sequencer a write belongs to: 1 Sanitize, 2 Hardcode-
\* CurrentPeriodColumn, 3 WriteNewPeriodColumn, 5 WriteAssumptionsAnd-
\* CurrentPeriodSummary, 6 ShiftAmortizationHistory, 7 DuplicateAndRemap-
\* ScheduleRow (4, ClearStaleFillFormatting, writes no cell value)
StateOf(e) ==
    IF e.a[1] = OpebExp THEN 1
    ELSE IF e.a[1] = RSI THEN (IF e.a[2] = NewPeriodColumn THEN 3 ELSE 2)
    ELSE IF e.a[1] \in {ModelInputs, ProVal1, Assumptions, NetOPEB} THEN 5
    ELSE IF e.a[1] = Amort THEN 6
    ELSE 7

\* C13: the writes of a run come in the order of the states Sanitize,
\* HardcodeCurrentPeriodColumn, WriteNewPeriodColumn, ..., Persist: no write
\* of a later state precedes a write of an earlier one (so every prior-period
\* RSI cell is hardcoded before a new-period RSI cell is written), and the
\* output is written after all of them.
C13_StatesInOrder ==
    /\ \A i \in 1..(Len(Writes) - 1) : StateOf(Writes[i]) <= StateOf(Writes[i + 1])
    /\ ~IsNone(out) => pc = "done"

(***************************************************************************)
(* The RSI columns of a finished run                                       *)
(***************************************************************************)
PriorPeriodColumn == IF variant = "excel" THEN "H" ELSE current_col(variant, upd)
DesignatedRows ==
    LET rows == IF variant = "excel" THEN rsi_rows_excel ELSE rsi_rows
    IN {rows[i] : i \in 1..Len(rows)}
LiteralInputRows == {17, 23}

\* C14: after a complete run every designated row of the prior-period RSI
\* column holds the literal evaluated value it had at open, never a formula,
\* and every designated row of the new-period column holds a formula, except
\* the literal inputs in rows 17 (covered payroll) and 23 (benefit changes).
C14_HardcodedThenFormulas ==
    Finished =>
        \A r \in DesignatedRows :
            /\ Get(Output, <<RSI, PriorPeriodColumn, r>>) = Get(wb0.v, <<RSI, PriorPeriodColumn, r>>)
            /\ Get(Output, <<RSI, PriorPeriodColumn, r>>).k # "formula"
            /\ (Get(Output, <<RSI, NewPeriodColumn, r>>).k = "formula") <=> (r \notin LiteralInputRows)

\* C15: in every updater the discount-rate cell of the new period (row 26 of
\* the new-period RSI column) is written as the literal number that is the
\* new discount rate, never as a formula.
C15_DiscountRateCellLiteral ==
    Finished => Get(Output, <<RSI, NewPeriodColumn, 26>>) = Num(upd.new_discount_rate)

(***************************************************************************)
(* The clamping formula of Table7AmortDeferred B13                         *)
(***************************************************************************)
ClampCell == <<Table7, "B", 13>>

\* the cells that hold the clamping formula and did not at open
ClampedCells ==
    {a \in DOMAIN Output :
        /\ Output[a] = Formula(clamping_formula)
        /\ \E i \in 1..Len(Writes) : Writes[i].a = a}

\* C16: the formula update_roll_forward_excel writes to Table7AmortDeferred
\* B13 evaluates to 0 for an experience amount of 0.5 and to 50 for 50, and
\* B13 is the one cell that receives it in a run.
C16_ClampNearZero ==
    (Finished /\ variant = "excel") =>
        /\ IfValue(Get(Output, ClampCell), Scale \div 2) = Num(0)
        /\ IfValue(Get(Output, ClampCell), Money(50)) = Num(Money(50))
        /\ ClampedCells = {ClampCell}

\* a finished run of update_roll_forward_excel, B13 empty at open
C16_Witness ==
    /\ Finished
    /\ variant = "excel"
    /\ Get(wb0.f, ClampCell) = NoneCell
    /\ Get(Output, ClampCell).k = "formula"

(***************************************************************************)
(* The end of a run                                                        *)
(***************************************************************************)
Failed == pc = "raised"

\* C17: both handles the run opened are closed on every path out of the
\* run, also when a step fails.
C17_HandlesClosed ==
    (Finished \/ Failed) => open = {}

\* the sheets a run addresses
RequiredSheets ==
    IF variant = "excel" THEN {OpebExp, ModelInputs, NetOPEB, RSI, Table7, Amort}
    ELSE {Assumptions, RSI, Amort, ProVal1, NetOPEB}

\* the lookups of the run all succeed
NoFailure ==
    /\ RequiredSheets \subseteq sheets
    /\ variant # "excel" => (PriorPeriodColumn # "?" /\ NewPeriodColumn # "?")

\* C18: when a step fails nothing is saved; a run without failure saves once,
\* after the last write: the output is the document with every write done.
C18_SaveOnlyAfterAllSteps ==
    /\ ~Finished => IsNone(out)
    /\ Finished => (NoFailure /\ ~IsNone(out) /\ Val(out) = Saved(wb))
    /\ (~NoFailure /\ pc # "load") => ~(pc \in {"save", "done"})

\* a run that failed with part of its writes done and nothing saved
C18_Witness ==
    /\ Failed
    /\ Len(Writes) > 0
    /\ wb # wb0.f
    /\ IsNone(out)

(***************************************************************************)
(* The report of the verifier                                              *)
(***************************************************************************)
Verified == ret.fn = "verify_roll_forward_output"
CheckNames ==
    {"Table7AmortDeferred_AI49", "OPEB_Exp_Def_H40", "RSI_I26_is_number", "RSI_I23_has_value"}

\* the text is 'GOOD' in any capitalisation
SaysGood(c) ==
    /\ c.k = "text"
    /\ Len(c.s) = 4
    /\ c.s[1] \in {"G", "g"}
    /\ c.s[2] \in {"O", "o"}
    /\ c.s[3] \in {"O", "o"}
    /\ c.s[4] \in {"D", "d"}

NonEmpty(c) == c.k = "num" \/ (c.k = "text" /\ \E i \in 1..Len(c.s) : c.s[i] # " ")

\* C19: on a document that has the three sheets verify_roll_forward_output
\* does not raise and returns exactly four named checks, each with expected,
\* actual (the cell's evaluated value) and a boolean passed that says what
\* the check's name says; the overall passed is true exactly when all four
\* passed; no cell is written and nothing is saved.
C19_VerifierReport ==
    (Verified /\ VerifySheets \subseteq sheets) =>
        LET r == ret.r
        IN /\ r.raised = ""
           /\ DOMAIN r.checks = CheckNames
           /\ \A n \in CheckNames :
                /\ DOMAIN r.checks[n] = {"expected", "actual", "passed"}
                /\ r.checks[n].passed \in BOOLEAN
           /\ r.checks["Table7AmortDeferred_AI49"].actual = Get(wb0.v, <<Table7, "AI", 49>>)
           /\ r.checks["OPEB_Exp_Def_H40"].actual = Get(wb0.v, <<OpebExp, "H", 40>>)
           /\ r.checks["RSI_I26_is_number"].actual = Get(wb0.v, <<RSI, "I", 26>>)
           /\ r.checks["RSI_I23_has_value"].actual = Get(wb0.v, <<RSI, "I", 23>>)
           /\ r.checks["Table7AmortDeferred_AI49"].expected = "GOOD"
           /\ r.checks["OPEB_Exp_Def_H40"].expected = "GOOD"
           /\ r.checks["Table7AmortDeferred_AI49"].passed
                  <=> SaysGood(r.checks["Table7AmortDeferred_AI49"].actual)
           /\ r.checks["OPEB_Exp_Def_H40"].passed
                  <=> SaysGood(r.checks["OPEB_Exp_Def_H40"].actual)
           /\ r.checks["RSI_I26_is_number"].passed
                  <=> r.checks["RSI_I26_is_number"].actual.k = "num"
           /\ r.checks["RSI_I23_has_value"].passed
                  <=> NonEmpty(r.checks["RSI_I23_has_value"].actual)
           /\ r.passed <=> (\A n \in CheckNames : r.checks[n].passed)
           /\ wb = wb0.v
           /\ \A i \in 1..Len(log) : log[i].op \in {"sheet", "read"}
           /\ IsNone(out)

\* a report with one failing check among four: the rate cell holds a text
C19_Witness ==
    /\ Verified
    /\ VerifySheets \subseteq sheets
    /\ ret.r.raised = ""
    /\ ~ret.r.passed
    /\ {n \in CheckNames : ~ret.r.checks[n].passed} = {"RSI_I26_is_number"}
    /\ ret.r.checks["Table7AmortDeferred_AI49"].actual = Text(<<"g", "o", "o", "d">>)

(***************************************************************************)
(* The two handles of a run                                                *)
(***************************************************************************)
\* the positions in the log where the evaluated-value handle is read at an
\* address the formula handle has written before
StaleReads ==
    {j \in 1..Len(log) :
        /\ log[j].op = "read"
        /\ log[j].h = "wb_data"
        /\ \E i \in 1..(j - 1) : log[i].op = "write" /\ log[i].a = log[j].a}

\* C20: in a run the evaluated-value handle is never read at an address the
\* formula handle has already written.
C20_NoReadAfterWrite ==
    StaleReads = {}

(***************************************************************************)
(* The calculators: the end-to-end scenario, the sensitivities, the        *)
(* engine's duration and the agreement of the variants                     *)
(***************************************************************************)
\* an amount in 1/Scale units of ScenarioUnit dollars, to the nearest cent,
\* in cents
Cents(x) == RoundAt(x, Scale \div (100 * ScenarioUnit))

\* prior EOY liability 24010, service cost 215 (in units of 5 dollars),
\* rates 0.0381 -> 0.0502, duration 10, no benefit payments
Scenario ==
    /\ ret.fn \in {"calculate_roll_forward", "calculate_rollforward", "run_rollforward"}
    /\ ret.a.boy * ScenarioUnit = 24010
    /\ ret.a.sc * ScenarioUnit = 215
    /\ ret.a.prior_rate = 3810
    /\ ret.a.new_rate = Some(5020)
    /\ ret.a.bp = 0
    /\ ret.fn # "run_rollforward" => ret.a.duration = Some(10)

\* the figures of calculate_roll_forward are linear in the amounts: the
\* call with ScenarioUnit times the balance and the service cost returns
\* ScenarioUnit times the figures
LinearInAmounts ==
    (ret.fn = "calculate_roll_forward" /\ ret.a.boy \in Balances
        /\ Val(ret.a.new_rate) <= RateUnit) =>
        LET r5 == calculate_roll_forward(
                      [boy_tol_old_rate |-> ScenarioUnit * ret.a.boy,
                       service_cost |-> ScenarioUnit * ret.a.sc,
                       prior_discount_rate |-> ret.a.prior_rate,
                       new_discount_rate |-> Val(ret.a.new_rate),
                       duration |-> Val(ret.a.duration),
                       trend_duration |-> Val(ret.a.trend_duration)])
        IN /\ r5.interest = ScenarioUnit * ret.r.interest
           /\ r5.assumption_change = ScenarioUnit * ret.r.ac
           /\ r5.eoy_tol = ScenarioUnit * ret.r.eoy

\* C22 as stated: in the scenario the calculators return an assumption change
\* of -2905.21, an interest of 918.57 and an EOY of 22238.36, to the cent.
C22_ScenarioAsStated ==
    Scenario =>
        /\ Cents(ret.r.ac) = -290521
        /\ Cents(ret.r.interest) = 91857
        /\ Cents(ret.r.eoy) = 2223836

\* C22: in the scenario the calculators return an assumption change of
\* -2905.21, an interest of (24010 + 215/2) * 0.0381 = 918.88 and an EOY of
\* 24010 + 215 + 918.88 - 2905.21 = 22238.67, to the cent.
C22_ScenarioFigures ==
    /\ LinearInAmounts
    /\ Scenario =>
        /\ Cents(ret.r.ac) = -290521
        /\ Cents(ret.r.interest) = 91888
        /\ Cents(ret.r.eoy) = 2223867

C22_Witness ==
    /\ Scenario
    /\ ret.fn = "calculate_roll_forward"
    /\ ScenarioUnit * ret.r.interest = (2 * 24010 + 215) * 3810
    /\ ret.r.boy = Money(24010 \div ScenarioUnit)

\* the trend duration the caller supplied; calculate_rollforward and
\* run_rollforward take none, RollForwardInputs defaults to 5
SuppliedTrendDuration ==
    IF IsNone(ret.a.trend_duration) THEN 5 ELSE Val(ret.a.trend_duration)

\* x is eoy * (pct / 100)
IsPercentOf(x, eoy, pct) ==
    \/ x.of = eoy /\ x.pct = pct
    \/ (x.of = 0 \/ x.pct = 0) /\ (eoy = 0 \/ pct = 0)

C29_SuppliedDurationUsed ==
    (/\ ret.fn = "RollForwardEngine.run"
     /\ ~InvalidAssumptions
     /\ ~IsNone(ret.a.duration)
     /\ ~IsNone(ret.a.new_rate)
     /\ Abs(RateChange) >= DeadBand)
        => ret.r.ac = -(Val(ret.a.duration) * ret.a.boy * RateChange * 2)

\* C30: for the same balance, service cost and rates, duration 10 and no
\* benefit payments, calculate_roll_forward, calculate_rollforward and
\* run_rollforward return the same BOY at the new rate, interest, assumption
\* change, experience and EOY, inside and outside the dead-band.
C30_VariantsAgree ==
    (ret.fn = "calculate_roll_forward" /\ ~InvalidAssumptions
        /\ ret.a.duration = Some(10)) =>
        LET nr == Val(ret.a.new_rate)
            g == calculate_rollforward(ret.a.boy, ret.a.sc, ret.a.prior_rate, nr, 0, 10)
            v == run_rollforward([tol_eoy |-> ret.a.boy, service_cost |-> ret.a.sc],
                                 nr, ret.a.prior_rate, 0)
        IN /\ ret.r.boy_new = g.tol_boy_new_rate /\ g.tol_boy_new_rate = v.tol_boy_new_rate
           /\ ret.r.interest = g.interest /\ g.interest = v.interest_cost
           /\ ret.r.ac = g.assumption_change /\ g.assumption_change = v.assumption_change
           /\ ret.r.exp = g.experience /\ g.experience = v.experience_gl
           /\ ret.r.eoy = g.tol_eoy_baseline /\ g.tol_eoy_baseline = v.tol_eoy_baseline

(***************************************************************************)
(* adjust_formula_row: chained remaps and absolute rows                    *)
(***************************************************************************)
\* where the digits of a <column>R or $<column>R token to the row start
RowStarts(s, row) ==
    {p \in 2..Len(s) :
        /\ s[p - 1] \in Upper
        /\ p + Len(Digits(row)) - 1 <= Len(s)
        /\ SubSeq(s, p, p + Len(Digits(row)) - 1) = Digits(row)
        /\ (p + Len(Digits(row)) > Len(s) \/ s[p + Len(Digits(row))] \notin DigitSet)}

\* where the digits of a <column>$R or $<column>$R token to the row start
AbsoluteRowStarts(s, row) ==
    {p \in 3..Len(s) :
        /\ s[p - 1] = "$"
        /\ s[p - 2] \in Upper
        /\ p + Len(Digits(row)) - 1 <= Len(s)
        /\ SubSeq(s, p, p + Len(Digits(row)) - 1) = Digits(row)
        /\ (p + Len(Digits(row)) > Len(s) \/ s[p + Len(Digits(row))] \notin DigitSet)}

\* the remaps applied at once to the references of the original text (the
\* rows of the remaps have two digits)
Simultaneous(s, remaps) ==
    [p \in 1..Len(s) |->
        IF \E i \in 1..Len(remaps) : p \in RowStarts(s, remaps[i][1])
        THEN Digits(remaps[CHOOSE i \in 1..Len(remaps) : p \in RowStarts(s, remaps[i][1])][2])[1]
        ELSE IF \E i \in 1..Len(remaps) : p - 1 \in RowStarts(s, remaps[i][1])
        THEN Digits(remaps[CHOOSE i \in 1..Len(remaps) : p - 1 \in RowStarts(s, remaps[i][1])][2])[2]
        ELSE s[p]]

Permutations3(seq) ==
    {<<seq[i], seq[j], seq[k]>> : i \in 1..3, j \in 1..3, k \in 1..3} \
        {q \in {<<seq[i], seq[j], seq[k]>> : i \in 1..3, j \in 1..3, k \in 1..3} :
            q[1] = q[2] \/ q[1] = q[3] \/ q[2] = q[3]}

AdjustedTotal == ret.fn = "adjust_total_row"

\* C25: the three remaps of the Total section applied one after the other
\* give the simultaneous substitution on the original formula, and so does
\* every permutation of the three.
C25_ComposedRemap ==
    AdjustedTotal =>
        /\ ret.r.s = Simultaneous(ret.a.formula.s, ret.a.remaps)
        /\ \A perm \in Permutations3(ret.a.remaps) :
               adjust_rows(ret.a.formula, perm, 1) = ret.r

\* a formula of row 38 that refers to the rows 38 and 14
C25_Witness ==
    /\ AdjustedTotal
    /\ ret.a.formula = Formula(<<"=", "D", "3", "8", ",", "B", "1", "4">>)
    /\ ret.r = Formula(<<"=", "D", "3", "7", ",", "B", "1", "3">>)

\* C26: a remap from row R leaves every <column>$R and $<column>$R as it
\* is, and rewrites every <column>R and $<column>R to the new row.
C26_AbsoluteRowsUntouched ==
    (Adjusted /\ IsStr(ret.a.formula)) =>
        LET s == ret.a.formula.s
            old == ret.a.old_row
            new == ret.a.new_row
        IN /\ Cardinality(AbsoluteRowStarts(ret.r.s, old)) = Cardinality(AbsoluteRowStarts(s, old))
           /\ Len(Digits(old)) = Len(Digits(new)) =>
                /\ \A p \in AbsoluteRowStarts(s, old) : p \in AbsoluteRowStarts(ret.r.s, old)
                /\ \A p \in RowStarts(s, old) : p \in RowStarts(ret.r.s, new)
           /\ RowStarts(ret.r.s, old) = {}

\* a remap of a formula with a relative and an absolute reference to row 14
C26_Witness ==
    /\ Adjusted
    /\ ret.a.old_row = 14
    /\ ret.a.formula = Formula(<<"=", "B", "1", "4", ",", "$", "B", "$", "1", "4">>)
    /\ ret.r = Formula(<<"=", "B", "1", "3", ",", "$", "B", "$", "1", "4">>)

\* experience amounts of at least one dollar, losses and gains
LargeExperience == {Money(-50), Money(-1), Money(1), Money(50)}

\* C27: the formula in Table7AmortDeferred B13 leaves every experience
\* amount x with |x| >= 1 as it is, a negative one included.
C27_ClampOnlyNearZero ==
    (Finished /\ variant = "excel") =>
        \A x \in LargeExperience : IfValue(Get(Output, ClampCell), x) = Num(x)

(***************************************************************************)
(* The two RSI columns of update_gasb75_file                               *)
(***************************************************************************)
\* C28: in both update_gasb75_file functions the hardcoded column and the
\* column of the new-period formulas differ, and at the end of the run every
\* hardcoded cell holds the value it had at open.
C28_DistinctColumns ==
    (Finished /\ variant # "excel") =>
        /\ PriorPeriodColumn # NewPeriodColumn
        /\ \A i \in 1..Len(rsi_rows) :
              Get(Output, <<RSI, PriorPeriodColumn, rsi_rows[i]>>)
                  = Get(wb0.v, <<RSI, PriorPeriodColumn, rsi_rows[i]>>)

(***************************************************************************)
(* Two runs in succession                                                  *)
(***************************************************************************)
SecondRunFinished == Finished /\ ~IsNone(prev)

\* the evaluated value of a slot in the input document of the first run
Original(row) == Get(Val(prev).v, ArslCell(row))

\* the seven slots of the series held seven different numbers
AllDifferent(first) ==
    /\ \A k \in first..(first + 6) : Original(k).k = "num"
    /\ \A j \in first..(first + 6), k \in first..(first + 6) :
           j # k => Original(j) # Original(k)

\* the slots of the series that hold the cell in the output of the second run
SlotsHolding(first, cell) ==
    {k \in first..(first + 6) : Get(Output, ArslCell(k)) = cell}

\* C24: after a second run on the output of the first, every original slot
\* value but the two oldest stands two slots further toward the oldest end;
\* when the originals differ from one another, each of those stands in
\* exactly one slot and the two oldest in none.
C24_TwoRunsShiftTwice ==
    SecondRunFinished =>
        \A first \in (IF variant = "excel" THEN {13, 23} ELSE {13}) :
            /\ \A k \in first..(first + 4) :
                   Get(Output, ArslCell(k + 2)) = Original(k)
            /\ AllDifferent(first) =>
                   \A k \in first..(first + 6) :
                       Cardinality(SlotsHolding(first, Original(k)))
                           = IF k <= first + 4 THEN 1 ELSE 0

\* two finished runs on a recalculated document whose slots all differ
C24_Witness ==
    /\ SecondRunFinished
    /\ variant = "gasb75"
    /\ AllDifferent(13)
    /\ Get(Output, ArslCell(19)) = Original(17)
    /\ Get(Output, ArslCell(19)) # Original(19)

\* the calculation of the excel run was given an amount that is not a number
CalculationFailed ==
    /\ variant = "excel"
    /\ upd.cells # <<>>
    /\ \E i \in 1..3 : upd.cells[i].k # "num"

\* C21: in run_roll_forward and update_roll_forward_excel the calculation
\* is over before the first write to a cell: while there are no results no
\* cell has been written and nothing is saved, and a calculation that fails
\* ends the run with the document not even loaded for the update, no cell
\* written and nothing saved.
C21_CalculationBeforeWrites ==
    variant = "excel" =>
        /\ IsNone(upd.results) => (Len(Writes) = 0 /\ IsNone(out))
        /\ CalculationFailed =>
              /\ pc \in {"calc", "raised"}
              /\ IsNone(upd.results)
              /\ wb = <<>>
              /\ Len(Writes) = 0
              /\ IsNone(out)

C21_Witness ==
    /\ CalculationFailed
    /\ Failed
    /\ upd.entry = "run_roll_forward"
    /\ ModelInputs \in sheets

====
